---- MODULE Spec2Model ----
(***************************************************************************)
(* Model of the indexing/synchronisation engine of local_rag:              *)
(* server/services/indexing_service.go (FileIndexingService).              *)
(*                                                                         *)
(* The vector store (a ChromaDB collection) holds chunk records.  The      *)
(* indexer reaches them by source_file only (Delete where source_file =    *)
(* path; Get, of which the first record of each path is used), so the      *)
(* collection is kept as, for each path, the sequence of its records in    *)
(* the order Get returns them (insertion order).  The document id (a       *)
(* fresh uuid per Add) is not kept, no decision of the indexer reads it.   *)
(* The filesystem is a map from path to what is found there.               *)
(* ScanAndIndexDirectory and the event goroutine of WatchDirectory are     *)
(* cut into steps at the points where they call the filesystem and the     *)
(* store; pc, wd and wpc are the positions of the goroutine main starts    *)
(* (README.md, server/main.go as given there), of WatchDirectory and of    *)
(* its event goroutine.  The requests of server/services/rag_service.go    *)
(* are modelled by their entry and their return.                           *)
(***************************************************************************)
EXTENDS Integers, Sequences, FiniteSets, TLC

\* ------------------------------------------------------------------ bounds
MaxFails == 1      \* failures (walk, hash, read, embed, add, delete, get) injected per run
MaxQueue == 1      \* filesystem events waiting for the event goroutine
MaxContent == 2    \* file contents are 0..MaxContent; content c splits into c chunks
MaxNotes == 1      \* records added by IngestNote
MaxCount == 2      \* the status counts at most so many files
MaxMetas == 3      \* metadatas returned by one Get
MaxText == 4       \* pieces of text in one note
MaxSessions == 2   \* chat sessions the service keeps

\* ------------------------------------------------------- filesystem domain
\* what is found at a path: nothing, a directory, or a regular file of content 0..MaxContent
Absent == -1
Dir == -2

\* In the order filepath.Walk visits them (lexical).  "s/e.md" is a file in
\* the subdirectory s of the indexed directory; the others are in the
\* indexed directory itself.
WalkOrder == <<"a.md", "b.TXT", "c.go", "d.pdf", "s/e.md">>

Paths == {WalkOrder[i] : i \in 1..Len(WalkOrder)}

\* the paths the editors of the directory write, remove and rename
Written == {"a.md", "b.TXT", "c.go"}

\* filepath.Dir(path) is the indexed directory
InRoot(path) == path # "s/e.md"

\* paths at which the environment may create a directory
DirPaths == {"a.md"}

Contents == 0..MaxContent

\* contents the environment writes at a path
ContentsAt(path) == IF path = "a.md" THEN Contents ELSE IF path = "b.TXT" THEN {1, 2} ELSE {1}

\* filepath.Ext(path)
Ext(path) ==
  CASE path = "a.md" -> ".md"
    [] path = "b.TXT" -> ".TXT"
    [] path = "d.pdf" -> ".pdf"
    [] path = "s/e.md" -> ".md"
    [] OTHER -> ".go"

\* strings.ToLower on the extensions that occur
ToLower(ext) ==
  CASE ext = ".TXT" -> ".txt"
    [] ext = ".MD" -> ".md"
    [] OTHER -> ext

\* variant: every extension is supported
isSupportedFile_AnyExt(path) == TRUE

isSupportedFile(path) == ToLower(Ext(path)) \in {".txt", ".md"}

\* calculateFileHash: the hex sha256 of the bytes; distinct contents, distinct digests.
calculateFileHash(content) == 100 + content

\* splitter.SplitText(string(content)): content c is c chunks long; the empty
\* file (content 0) splits into no chunk.
SplitText(content) == [i \in 1..content |-> (10 * content) + i]

IsRegular(v) == v \in Contents

\* ------------------------------------------------------------------- state
VARIABLES
  fs,            \* path -> Absent | Dir | content
  store,         \* the collection: path -> sequence of the chunk records of that source_file
  pc,            \* position of the goroutine main starts: "boot", the scan
                 \* ("walk", "index", "deletions"), "spawn", "return", "exit"
  wd,            \* position of WatchDirectory: "off", "new", "add", "waiting", "returned"
  wpc,           \* position of the event goroutine: "off", "idle", "index", "stopped"
  sub,           \* the subscription: "none", "created", "ok", "failed", "closed"
  ctx,           \* the context main creates: "live" or "cancelled"
  indexedFiles,  \* ScanAndIndexDirectory: snapshot, path -> hash (function on a set of paths)
  localFiles,    \* ScanAndIndexDirectory: paths recorded during the walk
  walk,          \* ScanAndIndexDirectory: entries filepath.Walk has still to visit
  pending,       \* <<path, hash>> between hashing and processAndEmbedFile, or <<>>
  events,        \* watcher.Events
  event,         \* the event being handled / handled last, or NoEvent
  store0,        \* the collection when the current / last operation started
  ops,           \* calls of the current / last operation: those to the store (Add,
                 \* Delete) and the other calls (Get, hash, read, embed) that failed
  failed,        \* a call of the current / last operation returned an error
  walkErrAt,     \* Len(ops) when filepath.Walk returned an error, -1 if it did not
  done,          \* "scan" / "event" right after that operation ended, else "none"
  quiet,         \* the last scan ended without failure and nothing happened since
  prevQuiet,     \* value of quiet when the current / last scan started
  afterBad,      \* the handling of an event of this run of the watcher has failed
  fails,         \* number of failures injected so far
  mu,            \* ragServiceImpl.mu: "free" or "held"
  req,           \* the request being served: "none", "query", "ingest", "notes", "count"
  reqErr,        \* the last request returned an error
  notes,         \* number of records added by IngestNote (no source_file)
  status,        \* FileIndexingService.status: IsScanning, CurrentFile, FileCount
  smu,           \* FileIndexingService.mu: "free", "writer" or "reader"
  spc,           \* position of the indexer between its status updates
  swalk,         \* files the walk has still to report in the status
  call,          \* the setStatus call under way, or NoCall
  got,           \* what GetStatus has read so far or has returned last
  metas,         \* the metadatas a Get of the collection returns
  snap,          \* the map getCurrentIndexState builds from them, or NotBuilt
  metas0,        \* the metadatas of the collection before the last call on it
  cop,           \* the last call on the collection taken alone
  chatSessions,  \* ragServiceImpl.chatSessions: the ids that are keys of the map
  qpc,           \* QueryRAG, per caller: "out", "lock", "lookup", "retrieve", "send", "tool"
  qreq,          \* per caller: the SessionID of the request (0: the empty string)
  qsid,          \* per caller: the local variable sessionID
  qres,          \* per caller: what the last call returned
  chat0,         \* per caller: chatSessions when the call took the mutex
  qcall,         \* per caller: the function call the model asked for last
  ndir,          \* the notes directory of FileActions: name -> content or NoFile
  ndir0,         \* ndir when the last call of FileActions started
  fcall          \* the last call of FileActions

vars == <<fs, store, pc, wd, wpc, sub, ctx, indexedFiles, localFiles, walk, pending,
          events, event, store0, ops, failed, walkErrAt, done, quiet, prevQuiet,
          afterBad, fails, mu, req, reqErr, notes, status, smu, spc, swalk, call,
          got, metas, snap, metas0, cop, chatSessions, qpc, qreq, qsid, qres,
          chat0, qcall, ndir, ndir0, fcall>>

\* what the requests leave alone
indexer == <<fs, store, pc, wd, wpc, sub, ctx, indexedFiles, localFiles, walk, pending,
             events, event, store0, ops, failed, walkErrAt, done, quiet, prevQuiet,
             afterBad, fails>>

\* what the indexer and the filesystem leave alone
requests == <<mu, req, reqErr, notes>>

\* the status of the indexer and its lock
statusv == <<status, smu, spc, swalk, call, got>>

\* getCurrentIndexState taken alone
snapv == <<metas, snap, metas0, cop>>

\* the notes directory of FileActions
filesv == <<ndir, ndir0, fcall>>

\* what the indexer, the filesystem and the requests leave alone
\* QueryRAG and its callers
queryv == <<chatSessions, qpc, qreq, qsid, qres, chat0, qcall>>

side == <<statusv, snapv, filesv, queryv>>

\* what the scan and the filesystem leave alone
watcher == <<wd, wpc, sub, ctx, afterBad>>

NoEvent == [Name |-> "", Op |-> "none"]

EmptyMap == [p \in {} |-> 0]

\* ----------------------------------------------------------------- helpers
SourceFiles(st) == {p \in Paths : st[p] # <<>>}

HashesOf(st, path) == {st[path][i].file_hash : i \in 1..Len(st[path])}

CanFail == fails < MaxFails

\* ok is TRUE, or FALSE when a failure may still be injected
Outcomes == IF CanFail THEN {TRUE, FALSE} ELSE {TRUE}

Charge(ok) == IF ok THEN fails ELSE fails + 1

DeleteOp(path, ok) == [op |-> "Delete", path |-> path, num |-> -1, ok |-> ok]

AddOp(path, num, ok) == [op |-> "Add", path |-> path, num |-> num, ok |-> ok]

EmbedFailure(path, num) == [op |-> "Embed", path |-> path, num |-> num, ok |-> FALSE]

\* a failed Get, hash or read
FailureOp(op, path) == [op |-> op, path |-> path, num |-> -1, ok |-> FALSE]

EmptyStore == [p \in Paths |-> <<>>]

\* getCurrentIndexState, lines 224-229: of the records of a path, the one Get
\* returns first gives the hash.
SnapshotRecord(records) == records[1]

\* getCurrentIndexState: path -> hash for every source_file of the collection
getCurrentIndexState(st) ==
  [p \in SourceFiles(st) |-> SnapshotRecord(st[p]).file_hash]

\* variant: the filter matches nothing
deleteDocumentsByFilepath_None(st, path) == st

\* variant: the first record of the path survives
deleteDocumentsByFilepath_KeepFirst(st, path) ==
  [st EXCEPT ![path] = IF st[path] = <<>> THEN <<>> ELSE <<st[path][1]>>]

\* variant: the record added last survives
deleteDocumentsByFilepath_KeepLast(st, path) ==
  [st EXCEPT ![path] = IF st[path] = <<>> THEN <<>> ELSE <<st[path][Len(st[path])]>>]

\* collection.Delete with where source_file == path
deleteDocumentsByFilepath(st, path) == [st EXCEPT ![path] = <<>>]

\* variant: the failing chunk is skipped and the loop goes on
AddedChunkNums_SkipOne(n, failAt) == {i \in 0..(n - 1) : i # failAt}

\* processAndEmbedFile, the loop over the chunks: chunk numbers (from 0) that
\* are embedded and added when the call for chunk failAt fails (failAt = n:
\* no call fails).  The first error returns from the function.
AddedChunkNums(n, failAt) == {i \in 0..(n - 1) : i < failAt}

\* variant: the chunks are numbered from 1
NewChunk_OneBased(path, hash, chunks, i) ==
  [source_file |-> path, file_hash |-> hash, chunk_num |-> i + 1, text |-> chunks[i + 1]]

\* processAndEmbedFile lines 187-198: the IndexedChunk of chunk i
NewChunk(path, hash, chunks, i) ==
  [source_file |-> path, file_hash |-> hash, chunk_num |-> i, text |-> chunks[i + 1]]

\* Records of a path after processAndEmbedFile: the added chunks, in chunk order.
RECURSIVE AppendChunks(_, _, _, _, _, _)
AppendChunks(records, path, hash, chunks, added, i) ==
  IF i >= Len(chunks) THEN records
  ELSE AppendChunks(IF i \in added
                    THEN Append(records, NewChunk(path, hash, chunks, i))
                    ELSE records,
                    path, hash, chunks, added, i + 1)

\* Calls of processAndEmbedFile; after an embed failure no Add is issued for
\* that chunk.
RECURSIVE AddOps(_, _, _, _, _, _, _)
AddOps(log, path, n, added, failAt, failIsAdd, i) ==
  IF i >= n THEN log
  ELSE AddOps(IF i \in added THEN Append(log, AddOp(path, i, TRUE))
              ELSE IF i = failAt
                   THEN Append(log, IF failIsAdd THEN AddOp(path, i, FALSE)
                                    ELSE EmbedFailure(path, i))
                   ELSE log,
              path, n, added, failAt, failIsAdd, i + 1)

\* processAndEmbedFile(path, hash) on a file of the given content.
processAndEmbedFile(st, log, path, hash, content, readOk, failAt, failIsAdd) ==
  LET chunks == SplitText(content)
      n == Len(chunks)
      added == IF readOk THEN AddedChunkNums(n, failAt) ELSE {}
      failing == IF readOk THEN failAt ELSE n
  IN [store |-> [st EXCEPT ![path] = AppendChunks(st[path], path, hash, chunks, added, 0)],
      ops |-> IF readOk THEN AddOps(log, path, n, added, failing, failIsAdd, 0)
              ELSE Append(log, FailureOp("Read", path)),
      err |-> (~readOk) \/ failAt < n]

\* WatchDirectory lines 68-79 when nothing fails: the store after the
\* handling of a Write or Create event of a regular file of this content
HandleWrite(st, path, content) ==
  processAndEmbedFile(deleteDocumentsByFilepath(st, path), <<>>, path,
                      calculateFileHash(content), content, TRUE,
                      Len(SplitText(content)), TRUE).store

\* variant: the walk function returns the error of the file and the walk stops
AfterFileError_Stop(rest) == <<>>

\* ScanAndIndexDirectory lines 130-131, 140-141 and 146-148: the failure of a
\* file is logged and the walk function returns nil; the walk goes on with
\* the entries that remain.
AfterFileError(rest) == rest

\* variant: the scan goes on to index after a failed delete
ScanIndexesAfterDelete_Always(deleteOk) == TRUE

\* ScanAndIndexDirectory lines 139-142: a failed delete of the old version
\* skips the file.
ScanIndexesAfterDelete(deleteOk) == deleteOk

\* WatchDirectory line 76: the result of the delete is not looked at.
WatchIndexesAfterDelete(deleteOk) == TRUE

\* variant: the comparison never finds a file unchanged
HashUnchanged_Never(stateHash, hash) == FALSE

\* ScanAndIndexDirectory line 135
HashUnchanged(stateHash, hash) == stateHash = hash

\* variant: the extension is not looked at
WalkRecords_AnyExt(path, v) == v # Dir

\* ScanAndIndexDirectory line 126
WalkRecords(path, v) == (v # Dir) /\ isSupportedFile(path)

\* variant: the test of line 158 inverted
DeletionTargets_Inverted(indexed, local) == {p \in DOMAIN indexed : p \in local}

\* ScanAndIndexDirectory lines 157-158
DeletionTargets(indexed, local) == {p \in DOMAIN indexed : p \notin local}

\* ScanAndIndexDirectory lines 152-154: after a walk error the function goes on.
AfterWalkError == "deletions"

\* Delete calls of the deletion phase, logged in path order (the map order of
\* the code is arbitrary and the calls are independent of one another).
RECURSIVE DeletionOps(_, _, _, _)
DeletionOps(log, targets, failing, i) ==
  IF i > Len(WalkOrder) THEN log
  ELSE DeletionOps(IF WalkOrder[i] \in targets
                   THEN Append(log, DeleteOp(WalkOrder[i], WalkOrder[i] \notin failing))
                   ELSE log,
                   targets, failing, i + 1)

\* Store after the deletion phase: deleteDocumentsByFilepath for every path
\* whose delete succeeds.
RECURSIVE DeletionStore(_, _, _)
DeletionStore(st, deleted, i) ==
  IF i > Len(WalkOrder) THEN st
  ELSE DeletionStore(IF WalkOrder[i] \in deleted
                     THEN deleteDocumentsByFilepath(st, WalkOrder[i])
                     ELSE st,
                     deleted, i + 1)

\* -------------------------------------------------------------------- Init
\* A fresh collection, an empty directory, the process about to start.
\* no value: a field the metadata lacks, a file the directory lacks
Missing == "<missing>"

NotBuilt == [built |-> FALSE, err |-> FALSE, state |-> EmptyMap]

NoFile == [exists |-> FALSE, text |-> <<>>]

NoCall == [scanning |-> FALSE, file |-> "", step |-> "none"]

NoRead == [IsScanning |-> FALSE, CurrentFile |-> "", step |-> "none"]

NoCollCall == [by |-> "none", op |-> "none", path |-> "", ok |-> TRUE]

NoFileCall == [op |-> "none", filename |-> "", content |-> "", result |-> ""]

\* names of the files of the notes directory
NoteNames == {"n.md", "m.md"}

\* the indexer, its collection holding the records st
InitIndexer(st) ==
  /\ fs = [p \in Paths |-> Absent]
  /\ store = st
  /\ store0 = EmptyStore
  /\ pc = "boot"
  /\ wd = "off"
  /\ wpc = "off"
  /\ sub = "none"
  /\ ctx = "live"
  /\ afterBad = FALSE
  /\ indexedFiles = EmptyMap
  /\ localFiles = {}
  /\ walk = <<>>
  /\ pending = <<>>
  /\ events = <<>>
  /\ event = NoEvent
  /\ ops = <<>>
  /\ failed = FALSE
  /\ walkErrAt = -1
  /\ done = "none"
  /\ quiet = FALSE
  /\ prevQuiet = FALSE
  /\ fails = 0

InitRequests ==
  /\ mu = "free"
  /\ req = "none"
  /\ reqErr = FALSE
  /\ notes = 0

\* README lines 1208-1215: NewFileIndexingService, IsScanning false
InitStatus ==
  /\ status = [IsScanning |-> FALSE, CurrentFile |-> "", FileCount |-> 0]
  /\ smu = "free"
  /\ spc = "idle"
  /\ swalk = <<>>
  /\ call = NoCall
  /\ got = NoRead

\* the clients that call QueryRAG
Callers == {1, 2}

NoResult == [kind |-> "none", SessionID |-> 0, known |-> FALSE, added |-> {}]

NoFunctionCall == [name |-> "", filename |-> "", content |-> "", argsOk |-> TRUE]

\* rag_service.go lines 377-385: NewRAGService, chatSessions is empty
InitQuery ==
  /\ chatSessions = {}
  /\ qpc = [c \in Callers |-> "out"]
  /\ qreq = [c \in Callers |-> 0]
  /\ qsid = [c \in Callers |-> 0]
  /\ qres = [c \in Callers |-> NoResult]
  /\ chat0 = [c \in Callers |-> {}]
  /\ qcall = [c \in Callers |-> NoFunctionCall]

InitFiles ==
  /\ ndir = [n \in NoteNames |-> NoFile]
  /\ ndir0 = [n \in NoteNames |-> NoFile]
  /\ fcall = NoFileCall

Init ==
  /\ InitIndexer(EmptyStore)
  /\ InitRequests
  /\ InitStatus
  /\ InitFiles
  /\ InitQuery
  /\ metas = <<>>
  /\ snap = NotBuilt
  /\ metas0 = <<>>
  /\ cop = NoCollCall

\* ------------------------------------------------------------- environment
\* The directory changes before a scan, and while the watcher is subscribed
\* and handles no event.
\* variant: events are delivered although watcher.Add has failed
Watching_AnySubscription == sub \in {"ok", "failed"}

\* watcher.Add has succeeded and the watcher is not closed
Watching == sub = "ok"

Settled == pc = "boot" \/ (Watching /\ wpc = "idle")

Room(k) == (~Watching) \/ Len(events) + k <= MaxQueue

\* lines 100-104: watcher.Add(dirPath) watches the entries of dirPath itself,
\* not those of its subdirectories
Delivered(e) == InRoot(e.Name)

Notify(evs) == IF Watching THEN events \o SelectSeq(evs, Delivered) ELSE events

Ev(name, op) == [Name |-> name, Op |-> op]

\* what an operation leaves behind is looked at right after it only
Forget ==
  /\ done' = "none"
  /\ indexedFiles' = EmptyMap
  /\ localFiles' = {}
  /\ event' = NoEvent
  /\ store0' = EmptyStore
  /\ ops' = <<>>
  /\ failed' = FALSE
  /\ walkErrAt' = -1
  /\ prevQuiet' = FALSE

EnvFrame ==
  /\ quiet' = FALSE
  /\ Forget
  /\ UNCHANGED <<store, pc, walk, pending, fails>>
  /\ UNCHANGED watcher
  /\ UNCHANGED requests
  /\ UNCHANGED side

\* an editor or the user writes content c to path p
FsWrite(p, c) ==
  /\ Settled /\ Room(1)
  /\ fs[p] # Dir
  /\ c \in ContentsAt(p)
  /\ fs' = [fs EXCEPT ![p] = c]
  /\ events' = Notify(<<Ev(p, IF fs[p] = Absent THEN "Create" ELSE "Write")>>)
  /\ EnvFrame

FsRemove(p) ==
  /\ Settled /\ Room(1)
  /\ fs[p] # Absent
  /\ fs' = [fs EXCEPT ![p] = Absent]
  /\ events' = Notify(<<Ev(p, "Remove")>>)
  /\ EnvFrame

\* rename of p to q; the platform reports Rename for p and may or may not
\* report Create for q
FsRename(p, q, paired) ==
  /\ Settled /\ Room(IF paired THEN 2 ELSE 1)
  /\ p # q /\ IsRegular(fs[p]) /\ fs[q] = Absent
  /\ fs' = [fs EXCEPT ![p] = Absent, ![q] = fs[p]]
  /\ events' = Notify(IF paired THEN <<Ev(p, "Rename"), Ev(q, "Create")>>
                      ELSE <<Ev(p, "Rename")>>)
  /\ EnvFrame

FsMkdir(p) ==
  /\ Settled /\ Room(1)
  /\ p \in DirPaths /\ fs[p] = Absent
  /\ fs' = [fs EXCEPT ![p] = Dir]
  /\ events' = Notify(<<Ev(p, "Create")>>)
  /\ EnvFrame

\* the process is stopped and started again: main runs the scan again
Restart ==
  /\ pc = "exit" /\ wpc # "index"
  /\ pc' = "boot"
  /\ wd' = "off"
  /\ wpc' = "off"
  /\ sub' = "none"
  /\ ctx' = "live"
  /\ afterBad' = FALSE
  /\ mu' = "free"
  /\ req' = "none"
  /\ reqErr' = FALSE
  /\ events' = <<>>
  /\ Forget
  /\ UNCHANGED <<fs, store, walk, pending, quiet, fails, notes>>
  /\ UNCHANGED side

\* ------------------------------------------------- ScanAndIndexDirectory
\* variant: the scan goes on to walk the directory without a snapshot
AfterGetError_Walk == "walk"

\* lines 115-118: the error of getCurrentIndexState is logged and
\* ScanAndIndexDirectory returns
AfterGetError == "spawn"

\* lines 112-121: build the snapshot; a failing Get returns from the scan.
ScanStart(getOk) ==
  /\ pc = "boot"
  /\ getOk \in Outcomes
  /\ fails' = Charge(getOk)
  /\ store0' = store
  /\ ops' = IF getOk THEN <<>> ELSE <<FailureOp("Get", "")>>
  /\ walkErrAt' = -1
  /\ prevQuiet' = quiet
  /\ quiet' = FALSE
  /\ event' = NoEvent
  /\ failed' = ~getOk
  /\ localFiles' = {}
  /\ IF getOk
     THEN /\ indexedFiles' = getCurrentIndexState(store)
          /\ walk' = SelectSeq(WalkOrder, LAMBDA p : fs[p] # Absent)
          /\ pc' = "walk"
          /\ done' = "none"
     ELSE /\ indexedFiles' = EmptyMap
          /\ walk' = IF AfterGetError = "spawn" THEN <<>>
                     ELSE SelectSeq(WalkOrder, LAMBDA p : fs[p] # Absent)
          /\ pc' = AfterGetError
          /\ done' = IF AfterGetError = "spawn" THEN "scan" ELSE "none"
  /\ UNCHANGED <<fs, store, pending, events>>
  /\ UNCHANGED watcher
  /\ UNCHANGED requests
  /\ UNCHANGED side

ScanFrame ==
  /\ UNCHANGED <<fs, indexedFiles, events, event, store0, walkErrAt, done, quiet, prevQuiet>>
  /\ UNCHANGED watcher
  /\ UNCHANGED requests
  /\ UNCHANGED side

\* lines 123-125 and 152-154: the walk function is handed an error, returns
\* it, and filepath.Walk stops
WalkError ==
  /\ pc = "walk"
  /\ CanFail
  /\ fails' = fails + 1
  /\ failed' = TRUE
  /\ walkErrAt' = Len(ops)
  /\ walk' = <<>>
  /\ pc' = AfterWalkError
  /\ done' = IF AfterWalkError = "spawn" THEN "scan" ELSE "none"
  /\ UNCHANGED <<fs, store, indexedFiles, localFiles, pending, events, event,
                 store0, ops, quiet, prevQuiet>>
  /\ UNCHANGED watcher
  /\ UNCHANGED requests
  /\ UNCHANGED side

\* line 126: a directory or a file of another extension
WalkSkipEntry ==
  /\ pc = "walk" /\ walk # <<>>
  /\ ~WalkRecords(Head(walk), fs[Head(walk)])
  /\ walk' = Tail(walk)
  /\ UNCHANGED <<store, pc, localFiles, pending, ops, failed, fails>>
  /\ ScanFrame

\* variant: the path is recorded only once its hash is known
RecordedBeforeHash_After(path) == {}

\* line 127: localFiles[path] = true comes before calculateFileHash (128)
RecordedBeforeHash(path) == {path}

\* lines 127-132: the file is recorded, its hash cannot be computed
WalkHashError ==
  /\ pc = "walk" /\ walk # <<>>
  /\ WalkRecords(Head(walk), fs[Head(walk)])
  /\ CanFail
  /\ fails' = fails + 1
  /\ failed' = TRUE
  /\ localFiles' = localFiles \cup RecordedBeforeHash(Head(walk))
  /\ ops' = Append(ops, FailureOp("Hash", Head(walk)))
  /\ walk' = AfterFileError(Tail(walk))
  /\ UNCHANGED <<store, pc, pending>>
  /\ ScanFrame

\* lines 134-137: the hash of the snapshot is the hash of the file
WalkUnchanged ==
  /\ pc = "walk" /\ walk # <<>>
  /\ LET path == Head(walk)
         hash == calculateFileHash(fs[path])
     IN /\ WalkRecords(path, fs[path])
        /\ path \in DOMAIN indexedFiles
        /\ HashUnchanged(indexedFiles[path], hash)
        /\ localFiles' = localFiles \cup {path}
  /\ walk' = Tail(walk)
  /\ UNCHANGED <<store, pc, pending, ops, failed, fails>>
  /\ ScanFrame

\* lines 138-143: the file has changed, its old chunks are deleted
WalkDeleteOld(deleteOk) ==
  /\ pc = "walk" /\ walk # <<>>
  /\ deleteOk \in Outcomes
  /\ LET path == Head(walk)
         hash == calculateFileHash(fs[path])
     IN /\ WalkRecords(path, fs[path])
        /\ path \in DOMAIN indexedFiles
        /\ ~HashUnchanged(indexedFiles[path], hash)
        /\ localFiles' = localFiles \cup {path}
        /\ store' = IF deleteOk THEN deleteDocumentsByFilepath(store, path) ELSE store
        /\ ops' = Append(ops, DeleteOp(path, deleteOk))
        /\ IF ScanIndexesAfterDelete(deleteOk)
           THEN pending' = <<path, hash>> /\ pc' = "index" /\ UNCHANGED walk
           ELSE pending' = <<>> /\ pc' = "walk" /\ walk' = AfterFileError(Tail(walk))
  /\ fails' = Charge(deleteOk)
  /\ failed' = (failed \/ ~deleteOk)
  /\ ScanFrame

\* line 134, not ok: the path is not in the snapshot
WalkNew ==
  /\ pc = "walk" /\ walk # <<>>
  /\ LET path == Head(walk)
     IN /\ WalkRecords(path, fs[path])
        /\ path \notin DOMAIN indexedFiles
        /\ localFiles' = localFiles \cup {path}
        /\ pending' = <<path, calculateFileHash(fs[path])>>
  /\ pc' = "index"
  /\ UNCHANGED <<store, walk, ops, failed, fails>>
  /\ ScanFrame

\* inputs of processAndEmbedFile on a file of n chunks: the read fails, or
\* the embed or the Add of chunk failAt fails, or nothing does (failAt = n)
IndexInputs(n, readOk, failAt, failIsAdd) ==
  /\ readOk \in Outcomes
  /\ failAt \in 0..n
  /\ failAt < n => (CanFail /\ readOk)
  /\ failAt = n => failIsAdd

\* lines 145-148: processAndEmbedFile for the file found new or modified
WalkIndexFile(readOk, failAt, failIsAdd) ==
  /\ pc = "index"
  /\ LET path == pending[1]
         res == processAndEmbedFile(store, ops, path, pending[2], fs[path],
                                    readOk, failAt, failIsAdd)
     IN /\ IndexInputs(Len(SplitText(fs[path])), readOk, failAt, failIsAdd)
        /\ store' = res.store
        /\ ops' = res.ops
        /\ failed' = (failed \/ res.err)
        /\ fails' = Charge(~res.err)
        /\ walk' = IF res.err THEN AfterFileError(Tail(walk)) ELSE Tail(walk)
  /\ pending' = <<>>
  /\ pc' = "walk"
  /\ UNCHANGED localFiles
  /\ ScanFrame

\* the walk has returned without error
WalkDone ==
  /\ pc = "walk" /\ walk = <<>>
  /\ pc' = "deletions"
  /\ UNCHANGED <<store, walk, localFiles, pending, ops, failed, fails>>
  /\ ScanFrame

\* lines 156-165: every snapshot path not recorded by the walk is deleted;
\* the deletes of the paths in failing return an error
ScanDeletions(failing) ==
  /\ pc = "deletions"
  /\ LET targets == DeletionTargets(indexedFiles, localFiles)
     IN /\ failing \subseteq targets
        /\ Cardinality(failing) <= MaxFails - fails
        /\ store' = DeletionStore(store, targets \ failing, 1)
        /\ ops' = DeletionOps(ops, targets, failing, 1)
        /\ fails' = fails + Cardinality(failing)
        /\ failed' = (failed \/ failing # {})
        /\ quiet' = ~(failed \/ failing # {})
  /\ pc' = "spawn"
  /\ done' = "scan"
  /\ UNCHANGED <<fs, indexedFiles, localFiles, walk, pending, events, event,
                 store0, walkErrAt, prevQuiet>>
  /\ UNCHANGED watcher
  /\ UNCHANGED requests
  /\ UNCHANGED side

\* ----------------------------------------------------------------- main
\* variant: the watcher is started before the scan
WatcherStartsAt_Boot == "boot"

\* README lines 777-781: the statement main's goroutine is at when it starts
\* WatchDirectory, after ScanAndIndexDirectory has returned.
WatcherStartsAt == "spawn"

\* README line 781: go indexingService.WatchDirectory(ctx, absPath)
MainStartWatcher ==
  /\ pc = WatcherStartsAt /\ wd = "off"
  /\ wd' = "new"
  /\ pc' = IF pc = "spawn" THEN "return" ELSE pc
  /\ Forget
  /\ UNCHANGED <<fs, store, wpc, sub, ctx, afterBad, walk, pending, events, quiet, fails>>
  /\ UNCHANGED requests
  /\ UNCHANGED side

\* README line 775: what the deferred cancel() makes of the context when the
\* goroutine started by main returns.
DeferredCancel == "cancelled"

\* README lines 782-783: the goroutine started by main returns after the go
\* statement; its deferred call runs.
MainReturn ==
  /\ pc = "return"
  /\ pc' = "exit"
  /\ ctx' = DeferredCancel
  /\ UNCHANGED <<fs, store, wd, wpc, sub, afterBad, indexedFiles, localFiles, walk,
                 pending, events, event, store0, ops, failed, walkErrAt, done, quiet,
                 prevQuiet, fails>>
  /\ UNCHANGED requests
  /\ UNCHANGED side

\* ------------------------------------------------------- WatchDirectory
\* a call that carries the context fails once the context is cancelled
CtxOutcomes == IF ctx = "cancelled" THEN {FALSE} ELSE Outcomes

CtxCharge(ok) == IF ctx = "cancelled" THEN fails ELSE Charge(ok)

LifeFrame ==
  /\ UNCHANGED <<fs, store, pc, ctx, afterBad, indexedFiles, localFiles, walk, pending,
                 event, store0, ops, failed, walkErrAt, done, quiet, prevQuiet>>
  /\ UNCHANGED requests
  /\ UNCHANGED side

\* lines 43-47: WatchDirectory after fsnotify.NewWatcher has failed
AfterNewWatcherError == "returned"

\* lines 43-51: the watcher is created and the event goroutine started, or
\* WatchDirectory returns
WatchNew(ok) ==
  /\ wd = "new"
  /\ ok \in Outcomes
  /\ fails' = Charge(ok)
  /\ IF ok
     THEN wd' = "add" /\ sub' = "created" /\ wpc' = "idle"
     ELSE wd' = AfterNewWatcherError /\ sub' = "failed" /\ UNCHANGED wpc
  /\ UNCHANGED events
  /\ LifeFrame

\* lines 100-104: watcher.Add(dirPath); its error is logged
WatchAdd(ok) ==
  /\ wd = "add"
  /\ ok \in Outcomes
  /\ fails' = Charge(ok)
  /\ sub' = IF ok THEN "ok" ELSE "failed"
  /\ wd' = "waiting"
  /\ UNCHANGED <<wpc, events>>
  /\ LifeFrame

\* variant: WatchDirectory stays blocked
AfterContextDone_Blocked == "waiting"

\* lines 107-108: WatchDirectory after <-ctx.Done() has returned
AfterContextDone == "returned"

\* lines 48 and 107: <-ctx.Done() returns, WatchDirectory returns and its
\* deferred watcher.Close() ends the subscription
WatchReturn ==
  /\ wd = "waiting"
  /\ ctx = "cancelled"
  /\ wd' = AfterContextDone
  /\ sub' = "closed"
  /\ events' = <<>>
  /\ UNCHANGED <<wpc, fails>>
  /\ LifeFrame

\* lines 55-57 and 93-95: the event goroutine returns from its select
WatchStop ==
  /\ wpc = "idle"
  /\ ctx = "cancelled" \/ sub = "closed"
  /\ wpc' = "stopped"
  /\ UNCHANGED <<wd, sub, events, fails>>
  /\ LifeFrame

WatchFrame ==
  /\ UNCHANGED <<fs, pc, wd, sub, ctx, indexedFiles, localFiles, walk, store0, walkErrAt,
                 prevQuiet>>
  /\ UNCHANGED requests
  /\ UNCHANGED side

\* variant: an event is received while the previous one is being handled
ReceivesAt_Any == {"idle", "index"}

\* lines 52-54 and 60-86: the select that receives an event is reached again
\* only when the handling of the previous event, which runs inline in the
\* same goroutine, is over
ReceivesAt == {"idle"}

\* line 54: the next event is received
Taking ==
  /\ wpc \in ReceivesAt /\ events # <<>>
  /\ event' = Head(events)
  /\ events' = Tail(events)
  /\ store0' = store
  /\ quiet' = FALSE
  /\ indexedFiles' = EmptyMap
  /\ localFiles' = {}
  /\ walkErrAt' = -1
  /\ prevQuiet' = FALSE
  /\ UNCHANGED <<fs, pc, wd, sub, ctx, walk>>
  /\ UNCHANGED requests
  /\ UNCHANGED side

\* variant: the event goroutine returns at the first error
AfterEventError_Return == "stopped"

\* lines 71-74, 77-79 and 83-85: where the event goroutine is after the
\* handling of an event has failed (the error is logged)
AfterEventError == "idle"

\* the handling of an event ends
EventEnds(bad) ==
  /\ wpc' = IF bad THEN AfterEventError ELSE "idle"
  /\ afterBad' = (afterBad \/ bad)
  /\ failed' = bad
  /\ done' = "event"

\* lines 59-61: the event of a file of another extension
WatchIgnore ==
  /\ Taking
  /\ ~isSupportedFile(Head(events).Name)
  /\ ops' = <<>>
  /\ EventEnds(FALSE)
  /\ UNCHANGED <<store, pending, fails>>

\* lines 68-74: Write or Create, the hash fails (a missing file and a
\* directory cannot be hashed)
WatchHashError(hashOk) ==
  /\ Taking
  /\ isSupportedFile(Head(events).Name)
  /\ Head(events).Op \in {"Write", "Create"}
  /\ hashOk \in Outcomes
  /\ IsRegular(fs[Head(events).Name]) => ~hashOk
  /\ ~IsRegular(fs[Head(events).Name]) => hashOk
  /\ fails' = Charge(hashOk)
  /\ ops' = <<FailureOp("Hash", Head(events).Name)>>
  /\ EventEnds(TRUE)
  /\ UNCHANGED <<store, pending>>

\* lines 68-76: Write or Create, the file is hashed and the old chunks deleted
WatchDeleteOld(deleteOk) ==
  /\ Taking
  /\ deleteOk \in CtxOutcomes
  /\ LET path == Head(events).Name
     IN /\ isSupportedFile(path)
        /\ Head(events).Op \in {"Write", "Create"}
        /\ IsRegular(fs[path])
        /\ store' = IF deleteOk THEN deleteDocumentsByFilepath(store, path) ELSE store
        /\ ops' = <<DeleteOp(path, deleteOk)>>
        /\ IF WatchIndexesAfterDelete(deleteOk)
           THEN /\ pending' = <<path, calculateFileHash(fs[path])>>
                /\ wpc' = "index" /\ done' = "none" /\ failed' = ~deleteOk
                /\ UNCHANGED afterBad
           ELSE pending' = <<>> /\ EventEnds(~deleteOk)
  /\ fails' = CtxCharge(deleteOk)

\* inputs of processAndEmbedFile in the watcher: with a cancelled context the
\* first embed call fails
WatchIndexInputs(n, readOk, failAt, failIsAdd) ==
  IF ctx = "cancelled"
  THEN readOk /\ failAt = 0 /\ (failIsAdd <=> n = 0)
  ELSE IndexInputs(n, readOk, failAt, failIsAdd)

\* lines 77-79: processAndEmbedFile for the event's file
WatchIndexFile(readOk, failAt, failIsAdd) ==
  /\ wpc = "index"
  /\ LET path == pending[1]
         res == processAndEmbedFile(store, ops, path, pending[2], fs[path],
                                    readOk, failAt, failIsAdd)
     IN /\ WatchIndexInputs(Len(SplitText(fs[path])), readOk, failAt, failIsAdd)
        /\ store' = res.store
        /\ ops' = res.ops
        /\ EventEnds(failed \/ res.err)
        /\ fails' = CtxCharge(~res.err)
  /\ pending' = <<>>
  /\ UNCHANGED <<events, event, quiet>>
  /\ WatchFrame

\* lines 80-86: Remove or Rename, the chunks of the path are deleted
WatchRemove(deleteOk) ==
  /\ Taking
  /\ deleteOk \in CtxOutcomes
  /\ LET path == Head(events).Name
     IN /\ isSupportedFile(path)
        /\ Head(events).Op \in {"Remove", "Rename"}
        /\ store' = IF deleteOk THEN deleteDocumentsByFilepath(store, path) ELSE store
        /\ ops' = <<DeleteOp(path, deleteOk)>>
  /\ fails' = CtxCharge(deleteOk)
  /\ EventEnds(~deleteOk)
  /\ UNCHANGED pending

\* -------------------------------------------------------------------- Next
Next ==
  \/ \E p \in Written, c \in Contents : FsWrite(p, c)
  \/ \E p \in Written : FsRemove(p)
  \/ \E p \in Written, q \in Written, paired \in BOOLEAN : FsRename(p, q, paired)
  \/ \E p \in Written : FsMkdir(p)
  \/ Restart
  \/ \E getOk \in BOOLEAN : ScanStart(getOk)
  \/ WalkError
  \/ WalkSkipEntry
  \/ WalkHashError
  \/ WalkUnchanged
  \/ \E deleteOk \in BOOLEAN : WalkDeleteOld(deleteOk)
  \/ WalkNew
  \/ \E readOk \in BOOLEAN, failAt \in 0..MaxContent, failIsAdd \in BOOLEAN :
       WalkIndexFile(readOk, failAt, failIsAdd)
  \/ WalkDone
  \/ \E failing \in SUBSET Paths : ScanDeletions(failing)
  \/ MainStartWatcher
  \/ MainReturn
  \/ \E ok \in BOOLEAN : WatchNew(ok)
  \/ \E ok \in BOOLEAN : WatchAdd(ok)
  \/ WatchReturn
  \/ WatchStop
  \/ WatchIgnore
  \/ \E hashOk \in BOOLEAN : WatchHashError(hashOk)
  \/ \E deleteOk \in BOOLEAN : WatchDeleteOld(deleteOk)
  \/ \E readOk \in BOOLEAN, failAt \in 0..MaxContent, failIsAdd \in BOOLEAN :
       WatchIndexFile(readOk, failAt, failIsAdd)
  \/ \E deleteOk \in BOOLEAN : WatchRemove(deleteOk)

Spec == Init /\ [][Next]_vars

\* the goroutines of the watcher are scheduled: a step of WatchDirectory or
\* of its event goroutine that stays possible is taken
WatcherFairness ==
  /\ WF_vars(\E ok \in BOOLEAN : WatchNew(ok))
  /\ WF_vars(\E ok \in BOOLEAN : WatchAdd(ok))
  /\ WF_vars(WatchReturn)
  /\ WF_vars(WatchStop)
  /\ WF_vars(\E readOk \in BOOLEAN, failAt \in 0..MaxContent, failIsAdd \in BOOLEAN :
               WatchIndexFile(readOk, failAt, failIsAdd))

\* the steps of the program: main's goroutine with the scan, WatchDirectory
\* and its event goroutine
Program ==
  \/ \E getOk \in BOOLEAN : ScanStart(getOk)
  \/ WalkError
  \/ WalkSkipEntry
  \/ WalkHashError
  \/ WalkUnchanged
  \/ \E deleteOk \in BOOLEAN : WalkDeleteOld(deleteOk)
  \/ WalkNew
  \/ \E readOk \in BOOLEAN, failAt \in 0..MaxContent, failIsAdd \in BOOLEAN :
       WalkIndexFile(readOk, failAt, failIsAdd)
  \/ WalkDone
  \/ \E failing \in SUBSET Paths : ScanDeletions(failing)
  \/ MainStartWatcher
  \/ MainReturn
  \/ \E ok \in BOOLEAN : WatchNew(ok)
  \/ \E ok \in BOOLEAN : WatchAdd(ok)
  \/ WatchReturn
  \/ WatchStop
  \/ WatchIgnore
  \/ \E hashOk \in BOOLEAN : WatchHashError(hashOk)
  \/ \E deleteOk \in BOOLEAN : WatchDeleteOld(deleteOk)
  \/ \E readOk \in BOOLEAN, failAt \in 0..MaxContent, failIsAdd \in BOOLEAN :
       WatchIndexFile(readOk, failAt, failIsAdd)
  \/ \E deleteOk \in BOOLEAN : WatchRemove(deleteOk)

\* the program in a directory whose files are written and removed only
NextRun ==
  \/ \E p \in Written, c \in Contents : FsWrite(p, c)
  \/ \E p \in Written : FsRemove(p)
  \/ Program
  \/ Restart

SpecLive == Init /\ [][NextRun]_vars /\ WatcherFairness

\* --------------------------------------------- a directory with a subtree
\* the paths written and removed: a markdown file, a pdf file and a
\* markdown file in a subdirectory
TreePaths == {"a.md", "d.pdf", "s/e.md"}

NextTree ==
  \/ \E p \in TreePaths, c \in Contents : FsWrite(p, c)
  \/ \E p \in TreePaths : FsRemove(p)
  \/ Program
  \/ Restart

SpecTree == Init /\ [][NextTree]_vars

\* ------------------------------------------------------ a racing writer
\* the file being indexed is written after calculateFileHash has read it
\* (lines 70, 128) and before processAndEmbedFile reads it (line 169)
RaceWrite(c) ==
  /\ pc = "index" \/ wpc = "index"
  /\ Room(1)
  /\ c \in ContentsAt(pending[1]) \ {fs[pending[1]]}
  /\ fs' = [fs EXCEPT ![pending[1]] = c]
  /\ events' = Notify(<<Ev(pending[1], "Write")>>)
  /\ quiet' = FALSE
  /\ UNCHANGED <<store, pc, indexedFiles, localFiles, walk, pending, event, store0,
                 ops, failed, walkErrAt, done, prevQuiet, fails>>
  /\ UNCHANGED watcher
  /\ UNCHANGED requests
  /\ UNCHANGED side

\* the paths written and removed next to the racing writer and to the requests
FewPaths == {"a.md", "c.go"}

NextRace ==
  \/ \E p \in FewPaths, c \in Contents : FsWrite(p, c)
  \/ \E p \in FewPaths : FsRemove(p)
  \/ Program
  \/ Restart
  \/ \E c \in Contents : RaceWrite(c)

SpecRace == Init /\ [][NextRace]_vars

\* ------------------------------------------------------------ requests
\* variant: the embedding call of the indexer locks the mutex of the service
EmbedLocksMutex_Locks == TRUE

\* rag_service.go lines 343-375: EmbedTextWithOllama, which the indexer calls
\* in processAndEmbedFile (line 183), does not lock r.mu; nor does any call
\* the indexer makes on the collection.
EmbedLocksMutex == FALSE

\* r.mu.Lock() returns
MutexFree == mu = "free" /\ ~(EmbedLocksMutex /\ (pc = "index" \/ wpc = "index"))

\* rag_service.go lines 143-148: QueryRAG is called and takes the mutex
QueryRAGEnter ==
  /\ req = "none"
  /\ MutexFree
  /\ mu' = "held"
  /\ req' = "query"
  /\ reqErr' = FALSE
  /\ UNCHANGED notes
  /\ UNCHANGED indexer
  /\ UNCHANGED side

\* rag_service.go lines 150-193: QueryRAG returns its answer, or the error
\* of one of its own calls; the deferred Unlock runs
QueryRAGReturn(ok) ==
  /\ req = "query"
  /\ mu' = "free"
  /\ req' = "none"
  /\ reqErr' = ~ok
  /\ UNCHANGED notes
  /\ UNCHANGED indexer
  /\ UNCHANGED side

\* rag_service.go lines 111-112: IngestNote is called
IngestNoteEnter ==
  /\ req = "none"
  /\ notes < MaxNotes
  /\ req' = "ingest"
  /\ reqErr' = FALSE
  /\ UNCHANGED <<mu, notes>>
  /\ UNCHANGED indexer
  /\ UNCHANGED side

\* rag_service.go lines 114-140: the note is embedded and added with the
\* metadata source = user_input, or the error of the call is returned
IngestNoteReturn(ok) ==
  /\ req = "ingest"
  /\ notes' = IF ok THEN notes + 1 ELSE notes
  /\ req' = "none"
  /\ reqErr' = ~ok
  /\ UNCHANGED mu
  /\ UNCHANGED indexer
  /\ UNCHANGED side

\* rag_service.go lines 44 and 53: GetTotalChunks or GetAllNotes is called
ReadRequestEnter(kind) ==
  /\ req = "none"
  /\ kind \in {"count", "notes"}
  /\ req' = kind
  /\ reqErr' = FALSE
  /\ UNCHANGED <<mu, notes>>
  /\ UNCHANGED indexer
  /\ UNCHANGED side

\* rag_service.go lines 45-49 and 57-60: Count or Get returns
ReadRequestReturn(ok) ==
  /\ req \in {"count", "notes"}
  /\ req' = "none"
  /\ reqErr' = ~ok
  /\ UNCHANGED <<mu, notes>>
  /\ UNCHANGED indexer
  /\ UNCHANGED side

\* the program and the requests of the clients
NextReq ==
  \/ \E p \in FewPaths, c \in Contents : FsWrite(p, c)
  \/ \E p \in FewPaths : FsRemove(p)
  \/ Program
  \/ Restart
  \/ QueryRAGEnter
  \/ \E ok \in BOOLEAN : QueryRAGReturn(ok)
  \/ IngestNoteEnter
  \/ \E ok \in BOOLEAN : IngestNoteReturn(ok)
  \/ \E kind \in {"count", "notes"} : ReadRequestEnter(kind)
  \/ \E ok \in BOOLEAN : ReadRequestReturn(ok)

SpecReq == Init /\ [][NextReq]_vars

\* -------------------------------------------------------------- status
\* README lines 1191-1271: the status of the indexer, its RWMutex, and the
\* calls ScanAndIndexDirectory and WatchDirectory make to update it.  The
\* indexer is followed from one status update to the next.
StatusFiles == {"a.md", "b.TXT"}

Deleting(name) == IF name = "a.md" THEN "Deleting a.md" ELSE "Deleting b.TXT"

StatusFrame ==
  /\ UNCHANGED indexer
  /\ UNCHANGED requests
  /\ UNCHANGED <<snapv, filesv, queryv>>

\* the indexer calls setStatus(scanning, file)
BeginCall(scanning, file) ==
  /\ call = NoCall
  /\ call' = [scanning |-> scanning, file |-> file, step |-> "lock"]

\* variant: setStatus writes without taking the lock
LockedBySetStatus_None == "free"

\* README lines 1219-1220: s.mu.Lock() in setStatus
LockedBySetStatus == "writer"

SetStatusLock ==
  /\ call.step = "lock"
  /\ smu = "free"
  /\ smu' = LockedBySetStatus
  /\ call' = [call EXCEPT !.step = "w1"]
  /\ UNCHANGED <<status, spc, swalk, got>>
  /\ StatusFrame

\* README line 1221: s.status.IsScanning = scanning
SetStatusWriteScanning ==
  /\ call.step = "w1"
  /\ status' = [status EXCEPT !.IsScanning = call.scanning]
  /\ call' = [call EXCEPT !.step = "w2"]
  /\ UNCHANGED <<smu, spc, swalk, got>>
  /\ StatusFrame

\* README lines 1220-1222: s.status.CurrentFile = currentFile, and the
\* deferred Unlock
SetStatusWriteFile ==
  /\ call.step = "w2"
  /\ status' = [status EXCEPT !.CurrentFile = call.file]
  /\ smu' = IF smu = "writer" THEN "free" ELSE smu
  /\ call' = NoCall
  /\ UNCHANGED <<spc, swalk, got>>
  /\ StatusFrame

\* README lines 1240-1242: ScanAndIndexDirectory starts
StatusScanBegin ==
  /\ spc = "idle"
  /\ BeginCall(TRUE, "Starting initial scan...")
  /\ spc' = "starting"
  /\ UNCHANGED <<status, smu, swalk, got>>
  /\ StatusFrame

\* README lines 1244-1247 with indexing_service.go lines 114-118: the
\* snapshot is built and its size recorded, or the scan returns on the
\* error of Get
StatusGet(ok, onDisk, indexed) ==
  /\ spc = "starting" /\ call = NoCall
  /\ IF ok
     THEN /\ smu = "free"
          /\ status' = [status EXCEPT !.FileCount = Cardinality(indexed)]
          /\ swalk' = SelectSeq(WalkOrder, LAMBDA p : p \in onDisk)
          /\ spc' = "walk"
     ELSE /\ onDisk = {} /\ indexed = {}
          /\ spc' = "returned"
          /\ UNCHANGED <<status, swalk>>
  /\ UNCHANGED <<smu, call, got>>
  /\ StatusFrame

\* README lines 1250-1251: in the walk, before a file is processed
StatusWalkFile ==
  /\ spc = "walk" /\ swalk # <<>>
  /\ BeginCall(TRUE, Head(swalk))
  /\ swalk' = Tail(swalk)
  /\ UNCHANGED <<status, smu, spc, got>>
  /\ StatusFrame

\* indexing_service.go lines 123-125 and 152-154: the walk stops on an error,
\* which is logged
StatusWalkError ==
  /\ spc = "walk" /\ swalk # <<>> /\ call = NoCall
  /\ swalk' = <<>>
  /\ spc' = "stopped"
  /\ UNCHANGED <<status, smu, call, got>>
  /\ StatusFrame

\* README lines 1254-1255: the scan is finished
StatusScanEnd ==
  /\ (spc = "walk" /\ swalk = <<>>) \/ spc = "stopped"
  /\ BeginCall(FALSE, "")
  /\ spc' = "ending"
  /\ UNCHANGED <<status, smu, swalk, got>>
  /\ StatusFrame

\* README line 1256: ScanAndIndexDirectory returns
StatusScanReturn ==
  /\ spc = "ending" /\ call = NoCall
  /\ spc' = "returned"
  /\ UNCHANGED <<status, smu, swalk, call, got>>
  /\ StatusFrame

\* README lines 1261-1262 and 1267-1268: the watcher starts to handle a
\* write or create event (by = 1) or a remove event (by = -1)
StatusEventBegin(name, by) ==
  /\ spc = "returned"
  /\ name \in StatusFiles
  /\ by \in {1, -1}
  /\ status.FileCount + by \in 0..MaxCount
  /\ BeginCall(TRUE, IF by = 1 THEN name ELSE Deleting(name))
  /\ spc' = IF by = 1 THEN "written" ELSE "removed"
  /\ UNCHANGED <<status, smu, swalk, got>>
  /\ StatusFrame

\* README lines 1263-1264 and 1269-1270: the event is handled
StatusEventEnd ==
  /\ spc \in {"written", "removed"}
  /\ BeginCall(FALSE, "")
  /\ spc' = IF spc = "written" THEN "count+" ELSE "count-"
  /\ UNCHANGED <<status, smu, swalk, got>>
  /\ StatusFrame

\* README lines 1265 and 1271: setFileCount(s.status.FileCount + 1) or - 1
StatusEventCount ==
  /\ spc \in {"count+", "count-"} /\ call = NoCall
  /\ smu = "free"
  /\ status' = [status EXCEPT !.FileCount = IF spc = "count+" THEN @ + 1 ELSE @ - 1]
  /\ spc' = "returned"
  /\ UNCHANGED <<smu, swalk, call, got>>
  /\ StatusFrame

\* README lines 1232-1234: GetStatus takes the read lock
GetStatusLock ==
  /\ got.step \in {"none", "done"}
  /\ smu = "free"
  /\ smu' = "reader"
  /\ got' = [got EXCEPT !.step = "locked"]
  /\ UNCHANGED <<status, spc, swalk, call>>
  /\ StatusFrame

\* README line 1235: return s.status, the copy of the first field
GetStatusReadScanning ==
  /\ got.step = "locked"
  /\ got' = [got EXCEPT !.IsScanning = status.IsScanning, !.step = "half"]
  /\ UNCHANGED <<status, smu, spc, swalk, call>>
  /\ StatusFrame

\* README lines 1234-1235: the copy of the second field, and the deferred
\* RUnlock
GetStatusReadFile ==
  /\ got.step = "half"
  /\ got' = [got EXCEPT !.CurrentFile = status.CurrentFile, !.step = "done"]
  /\ smu' = IF smu = "reader" THEN "free" ELSE smu
  /\ UNCHANGED <<status, spc, swalk, call>>
  /\ StatusFrame

NextStatus ==
  \/ SetStatusLock
  \/ SetStatusWriteScanning
  \/ SetStatusWriteFile
  \/ StatusScanBegin
  \/ \E ok \in BOOLEAN, onDisk \in SUBSET StatusFiles, indexed \in SUBSET StatusFiles :
       StatusGet(ok, onDisk, indexed)
  \/ StatusWalkFile
  \/ StatusWalkError
  \/ StatusScanEnd
  \/ StatusScanReturn
  \/ \E name \in StatusFiles, by \in {1, -1} : StatusEventBegin(name, by)
  \/ StatusEventEnd
  \/ StatusEventCount
  \/ GetStatusLock
  \/ GetStatusReadScanning
  \/ GetStatusReadFile

SpecStatus == Init /\ [][NextStatus]_vars

\* ------------------------------------------------------------ snapshot
\* getCurrentIndexState on the metadatas of the collection in the order Get
\* returns them.  A metadata is nil or carries the fields source_file and
\* file_hash, each a string, another JSON value, or absent.
Number == "<number>"

NilMeta == [nil |-> TRUE, source_file |-> Missing, file_hash |-> Missing]

MetaValues ==
  {NilMeta} \cup
  {[nil |-> FALSE, source_file |-> f, file_hash |-> h] :
      f \in {"a.md", "b.TXT", Missing}, h \in {"h1", "h2", Number}}

MetaSeqs == UNION {[1..n -> MetaValues] : n \in 0..MaxMetas}

\* lines 224-225: the type assertion .(string)
IsString(v) == v \notin {Missing, Number}

\* variant: an entry is overwritten by every later chunk of the file
Exists_Never(state, path) == FALSE

\* line 226: _, exists := state[path]
Exists(state, path) == path \in DOMAIN state

\* lines 214-230: the body of the loop over the metadatas
StateAfter(state, meta) ==
  IF /\ ~meta.nil
     /\ IsString(meta.source_file)
     /\ IsString(meta.file_hash)
     /\ ~Exists(state, meta.source_file)
  THEN [p \in DOMAIN state \cup {meta.source_file} |->
          IF p = meta.source_file THEN [Hash |-> meta.file_hash] ELSE state[p]]
  ELSE state

RECURSIVE IndexStateFrom(_, _)
IndexStateFrom(state, rest) ==
  IF rest = <<>> THEN state
  ELSE IndexStateFrom(StateAfter(state, Head(rest)), Tail(rest))

\* lines 206-234
IndexStateOf(ms) == IndexStateFrom(EmptyMap, ms)

BuildSnapshot(getOk) ==
  /\ ~snap.built
  /\ snap' = IF getOk
             THEN [built |-> TRUE, err |-> FALSE, state |-> IndexStateOf(metas)]
             ELSE [built |-> TRUE, err |-> TRUE, state |-> EmptyMap]
  /\ UNCHANGED <<metas, metas0, cop>>
  /\ UNCHANGED indexer
  /\ UNCHANGED requests
  /\ UNCHANGED <<statusv, filesv, queryv>>

InitSnap ==
  /\ InitIndexer(EmptyStore)
  /\ InitRequests
  /\ InitStatus
  /\ InitFiles
  /\ InitQuery
  /\ metas \in MetaSeqs
  /\ snap = NotBuilt
  /\ metas0 = <<>>
  /\ cop = NoCollCall

NextSnap == \E getOk \in BOOLEAN : BuildSnapshot(getOk)

SpecSnap == InitSnap /\ [][NextSnap]_vars

\* ------------------------------------------------- a collection in use
\* The process starts on a collection that already holds chunks, among them
\* chunks whose source_file has an extension the indexer does not support.
SeedRecords(path) ==
  {<<>>, <<NewChunk(path, calculateFileHash(1), SplitText(1), 0)>>}

SeedStores ==
  {[p \in Paths |-> IF p = "a.md" THEN ra ELSE IF p = "c.go" THEN rc ELSE <<>>] :
      ra \in SeedRecords("a.md"), rc \in SeedRecords("c.go")}

InitSeeded ==
  /\ \E st \in SeedStores : InitIndexer(st)
  /\ InitRequests
  /\ InitStatus
  /\ InitFiles
  /\ InitQuery
  /\ metas = <<>>
  /\ snap = NotBuilt
  /\ metas0 = <<>>
  /\ cop = NoCollCall

NextSeeded ==
  \/ \E p \in FewPaths, c \in Contents : FsWrite(p, c)
  \/ \E p \in FewPaths : FsRemove(p)
  \/ Program
  \/ Restart

SpecSeeded == InitSeeded /\ [][NextSeeded]_vars

\* --------------------------------------------------------- FileActions
\* file_actions.go: the notes directory (name -> file) and the three
\* operations the model's tools call.  The text of a file is the sequence of
\* the pieces written to it.
FileNames == {"n.md", "m.md", "n.txt", "../n.md", "sub/m.md"}

Texts == {"x", "y"}

\* line 29: strings.HasSuffix(filename, ".md")
HasSuffixMd(filename) == filename # "n.txt"

\* line 33: filepath.Base(filename)
Base(filename) ==
  CASE filename = "../n.md" -> "n.md"
    [] filename = "sub/m.md" -> "m.md"
    [] OTHER -> filename

\* lines 28-38; the path is given relative to NotesDir, of which the joined
\* base name always is a child (line 34)
sanitizeFilename(filename) ==
  IF ~HasSuffixMd(filename)
  THEN [err |-> TRUE, path |-> ""]
  ELSE [err |-> FALSE, path |-> Base(filename)]

FileOf(text) == [exists |-> TRUE, text |-> text]

FileCall(op, filename, content, result) ==
  /\ fcall' = [op |-> op, filename |-> filename, content |-> content, result |-> result]
  /\ ndir0' = ndir
  /\ UNCHANGED indexer
  /\ UNCHANGED requests
  /\ UNCHANGED <<statusv, snapv>>

\* lines 40-53
CreateMarkdownFile(filename, content, writeOk) ==
  LET clean == sanitizeFilename(filename)
  IN IF clean.err
     THEN /\ writeOk
          /\ FileCall("Create", filename, content, "Error: filename must end with .md")
          /\ UNCHANGED ndir
     ELSE IF ndir[clean.path].exists
     THEN /\ writeOk
          /\ FileCall("Create", filename, content, "Error: File already exists.")
          /\ UNCHANGED ndir
     ELSE IF ~writeOk
     THEN /\ FileCall("Create", filename, content, "Error: Failed to create file")
          /\ UNCHANGED ndir
     ELSE /\ FileCall("Create", filename, content, "Success: File created.")
          /\ ndir' = [ndir EXCEPT ![clean.path] = FileOf(<<content>>)]

\* lines 55-65
DeleteMarkdownFile(filename) ==
  LET clean == sanitizeFilename(filename)
  IN IF clean.err
     THEN /\ FileCall("Delete", filename, "", "Error: filename must end with .md")
          /\ UNCHANGED ndir
     ELSE IF ~ndir[clean.path].exists
     THEN /\ FileCall("Delete", filename, "", "Error: Failed to delete file")
          /\ UNCHANGED ndir
     ELSE /\ FileCall("Delete", filename, "", "Success: File deleted.")
          /\ ndir' = [ndir EXCEPT ![clean.path] = NoFile]

\* line 72: os.OpenFile with O_APPEND|O_WRONLY|O_CREATE: the file as it is
\* open for appending
OpenForAppend(file) == IF file.exists THEN file ELSE FileOf(<<>>)

\* lines 67-82
EditMarkdownFile(filename, content, openOk, writeOk) ==
  LET clean == sanitizeFilename(filename)
  IN IF clean.err
     THEN /\ openOk /\ writeOk
          /\ FileCall("Edit", filename, content, "Error: filename must end with .md")
          /\ UNCHANGED ndir
     ELSE IF ~openOk
     THEN /\ writeOk
          /\ FileCall("Edit", filename, content, "Error: Failed to open file")
          /\ UNCHANGED ndir
     ELSE LET open == OpenForAppend(ndir[clean.path])
          IN /\ Len(open.text) + 2 <= MaxText
             /\ IF writeOk
                THEN /\ FileCall("Edit", filename, content, "Success: Content appended.")
                     /\ ndir' = [ndir EXCEPT ![clean.path] =
                                    FileOf(open.text \o <<"\n\n", content>>)]
                ELSE /\ FileCall("Edit", filename, content, "Error: Failed to write to file")
                     /\ ndir' = [ndir EXCEPT ![clean.path] = open]

NextFiles ==
  \/ \E f \in FileNames, c \in Texts, writeOk \in BOOLEAN :
       CreateMarkdownFile(f, c, writeOk) /\ UNCHANGED queryv
  \/ \E f \in FileNames :
       DeleteMarkdownFile(f) /\ UNCHANGED queryv
  \/ \E f \in FileNames, c \in Texts, openOk \in BOOLEAN, writeOk \in BOOLEAN :
       EditMarkdownFile(f, c, openOk, writeOk) /\ UNCHANGED queryv

SpecFiles == Init /\ [][NextFiles]_vars

\* ------------------------------------------ changes before the watcher
\* README lines 773-782 and indexing_service.go lines 100-104: between the
\* visit of a file by the walk (or the end of the scan) and the success of
\* watcher.Add nothing watches the directory.  A file is created, written or
\* removed (v = Absent) in that time; no event is produced.
Unwatched == sub \in {"none", "created"}

VisitedOrScanOver(p) == p \in localFiles \/ pc \in {"spawn", "return", "exit"}

GapChange(p, v) ==
  /\ pc # "boot"
  /\ Unwatched
  /\ VisitedOrScanOver(p)
  /\ fs[p] # Dir
  /\ v \in (ContentsAt(p) \cup {Absent}) \ {fs[p]}
  /\ fs' = [fs EXCEPT ![p] = v]
  /\ quiet' = FALSE
  /\ UNCHANGED <<store, pc, indexedFiles, localFiles, walk, pending, events, event,
                 store0, ops, failed, walkErrAt, done, prevQuiet, fails>>
  /\ UNCHANGED watcher
  /\ UNCHANGED requests
  /\ UNCHANGED side

NextGap ==
  \/ \E p \in FewPaths, c \in Contents : FsWrite(p, c)
  \/ \E p \in FewPaths : FsRemove(p)
  \/ Program
  \/ Restart
  \/ \E p \in FewPaths, v \in Contents \cup {Absent} : GapChange(p, v)

SpecGap == Init /\ [][NextGap]_vars

\* ------------------------------------------- notes among the chunks
\* The collection taken as the sequence of the metadatas of its documents:
\* those IngestNote adds carry source = user_input and no source_file, those
\* of the indexer carry source_file and file_hash.  The calls the scan, the
\* watcher and IngestNote make on it, in any order.
NoteMeta == [nil |-> FALSE, source_file |-> Missing, file_hash |-> Missing]

CollPaths == {"a.md", "b.TXT"}

CollHashes == {"h1", "h2"}

\* variant: the where clause is dropped and every document matches
MatchesSourceFile_Any(meta, path) == TRUE

\* line 238: chromago.EqString("source_file", path)
MatchesSourceFile(meta, path) == ~meta.nil /\ meta.source_file = path

\* lines 236-240: collection.Delete with the where clause
DeleteWhere(ms, path) == SelectSeq(ms, LAMBDA m : ~MatchesSourceFile(m, path))

RECURSIVE DeleteAll(_, _)
DeleteAll(ms, paths) ==
  IF paths = {} THEN ms
  ELSE LET path == CHOOSE q \in paths : TRUE
       IN DeleteAll(DeleteWhere(ms, path), paths \ {path})

CollFrame ==
  /\ metas0' = metas
  /\ UNCHANGED indexer
  /\ UNCHANGED requests
  /\ UNCHANGED <<statusv, filesv, queryv>>

\* rag_service.go lines 111-140: IngestNote
CollIngestNote(ok) ==
  /\ Len(metas) < MaxMetas
  /\ metas' = IF ok THEN Append(metas, NoteMeta) ELSE metas
  /\ cop' = [by |-> "IngestNote", op |-> "Add", path |-> "", ok |-> ok]
  /\ UNCHANGED snap
  /\ CollFrame

\* lines 114-119: the scan builds its snapshot, or returns on the error
CollScanStart(getOk) ==
  /\ ~snap.built
  /\ snap' = IF getOk
             THEN [built |-> TRUE, err |-> FALSE, state |-> IndexStateOf(metas)]
             ELSE NotBuilt
  /\ cop' = [by |-> "scan", op |-> "Get", path |-> "", ok |-> getOk]
  /\ UNCHANGED metas
  /\ CollFrame

\* lines 134-142: the scan deletes the old version of a file of the snapshot
CollScanDeleteOld(path, ok) ==
  /\ snap.built
  /\ path \in DOMAIN snap.state
  /\ metas' = IF ok THEN DeleteWhere(metas, path) ELSE metas
  /\ cop' = [by |-> "scan", op |-> "Delete", path |-> path, ok |-> ok]
  /\ UNCHANGED snap
  /\ CollFrame

\* lines 187-198: the scan (during it) or the watcher (after it) adds a chunk
CollIndexAdd(path, hash, ok) ==
  /\ Len(metas) < MaxMetas
  /\ path \in CollPaths /\ hash \in CollHashes
  /\ metas' = IF ok
              THEN Append(metas, [nil |-> FALSE, source_file |-> path, file_hash |-> hash])
              ELSE metas
  /\ cop' = [by |-> IF snap.built THEN "scan" ELSE "watcher",
             op |-> "Add", path |-> path, ok |-> ok]
  /\ UNCHANGED snap
  /\ CollFrame

\* lines 156-164: the deletion phase deletes the paths of the snapshot that
\* the walk has not recorded; the scan is over
CollScanDeletions(targets) ==
  /\ snap.built
  /\ targets \subseteq DOMAIN snap.state
  /\ metas' = DeleteAll(metas, targets)
  /\ cop' = [by |-> "scan", op |-> "Deletions", path |-> "", ok |-> TRUE]
  /\ snap' = NotBuilt
  /\ CollFrame

\* lines 74-76 and 82-84: the watcher deletes the chunks of the event's path
CollWatchDelete(path, ok) ==
  /\ ~snap.built
  /\ path \in CollPaths
  /\ metas' = IF ok THEN DeleteWhere(metas, path) ELSE metas
  /\ cop' = [by |-> "watcher", op |-> "Delete", path |-> path, ok |-> ok]
  /\ UNCHANGED snap
  /\ CollFrame

NextColl ==
  \/ \E ok \in BOOLEAN : CollIngestNote(ok)
  \/ \E getOk \in BOOLEAN : CollScanStart(getOk)
  \/ \E path \in CollPaths, ok \in BOOLEAN : CollScanDeleteOld(path, ok)
  \/ \E path \in CollPaths, hash \in CollHashes, ok \in BOOLEAN : CollIndexAdd(path, hash, ok)
  \/ \E targets \in SUBSET CollPaths : CollScanDeletions(targets)
  \/ \E path \in CollPaths, ok \in BOOLEAN : CollWatchDelete(path, ok)

SpecColl == Init /\ [][NextColl]_vars

\* ------------------------------------------------------------ QueryRAG
\* rag_service.go lines 143-193 and 258-319: QueryRAG called by several
\* clients at once, its session map, its mutex, and the loop of
\* generateResponseWithGemini with the function calls of the model.  A
\* session id is a number, 0 the empty string.
SessionIds == 1..MaxSessions

ToolNames == {"createMarkdownFile", "deleteMarkdownFile", "editMarkdownFile", "noSuchTool"}

FunctionCalls ==
  {[name |-> n, filename |-> "n.md", content |-> "x", argsOk |-> a] :
      n \in ToolNames, a \in BOOLEAN}

PastLock == {"lookup", "retrieve", "send", "tool"}

QueryFrame ==
  /\ UNCHANGED <<req, reqErr, notes>>
  /\ UNCHANGED indexer
  /\ UNCHANGED <<statusv, snapv>>

\* variant: the mutex is unlocked before the successful return only
UnlocksOn_SuccessOnly == {"ok"}

\* line 148: defer r.mu.Unlock() runs on every return and on a panic
UnlocksOn == {"ok", "error: create", "error: retrieve", "error: gemini", "panic"}

\* lines 154-156: the session of the request is in the map
SessionFound(sessions, sid) == sid # 0 /\ sid \in sessions

\* QueryRAG returns (or panics): the deferred Unlock.  The result is kept
\* with what the call found and what it added to the map.
QueryReturn(c, kind) ==
  /\ qpc' = [qpc EXCEPT ![c] = "out"]
  /\ qres' = [qres EXCEPT ![c] = [kind |-> kind,
                                  SessionID |-> IF kind = "ok" THEN qsid[c] ELSE 0,
                                  known |-> SessionFound(chat0[c], qreq[c]),
                                  added |-> chatSessions \ chat0[c]]]
  /\ qreq' = [qreq EXCEPT ![c] = 0]
  /\ qsid' = [qsid EXCEPT ![c] = 0]
  /\ chat0' = [chat0 EXCEPT ![c] = {}]
  /\ qcall' = [qcall EXCEPT ![c] = NoFunctionCall]
  /\ mu' = IF kind \in UnlocksOn THEN "free" ELSE mu

\* lines 143-144: a client calls QueryRAG with a session id, which is empty,
\* a key of the map, or unknown to it
QueryCall(c, sid) ==
  /\ qpc[c] = "out"
  /\ sid \in {0} \cup SessionIds
  /\ sid \in chatSessions
       \/ Cardinality(chatSessions) + Cardinality({d \in Callers : qpc[d] \in {"lock", "lookup"}})
            < MaxSessions
  /\ qpc' = [qpc EXCEPT ![c] = "lock"]
  /\ qreq' = [qreq EXCEPT ![c] = sid]
  /\ qsid' = [qsid EXCEPT ![c] = 0]
  /\ qres' = [qres EXCEPT ![c] = NoResult]
  /\ qcall' = [qcall EXCEPT ![c] = NoFunctionCall]
  /\ UNCHANGED <<mu, chatSessions, chat0, filesv>>
  /\ QueryFrame

\* lines 147-151: r.mu.Lock() returns; sessionID := req.SessionID
QueryLock(c) ==
  /\ qpc[c] = "lock"
  /\ MutexFree
  /\ mu' = "held"
  /\ qpc' = [qpc EXCEPT ![c] = "lookup"]
  /\ qsid' = [qsid EXCEPT ![c] = qreq[c]]
  /\ chat0' = [chat0 EXCEPT ![c] = chatSessions]
  /\ UNCHANGED <<chatSessions, qreq, qres, qcall, filesv>>
  /\ QueryFrame

\* variant: the new id may be a key of the map
FreshIds_Any(sessions) == SessionIds

\* line 170: uuid.New().String(), an id that no key of the map equals
FreshIds(sessions) == SessionIds \ sessions

\* lines 153-172: the session is looked up; if there is none, a chat is
\* created and stored under a new id, or the error of Create is returned
QueryLookup(c, createOk, id) ==
  /\ qpc[c] = "lookup"
  /\ IF SessionFound(chatSessions, qsid[c])
     THEN /\ createOk /\ id = 0
          /\ qpc' = [qpc EXCEPT ![c] = "retrieve"]
          /\ UNCHANGED <<mu, chatSessions, qsid, qres, qreq, chat0, qcall>>
     ELSE IF createOk
     THEN /\ id \in FreshIds(chatSessions)
          /\ chatSessions' = chatSessions \cup {id}
          /\ qsid' = [qsid EXCEPT ![c] = id]
          /\ qpc' = [qpc EXCEPT ![c] = "retrieve"]
          /\ UNCHANGED <<mu, qres, qreq, chat0, qcall>>
     ELSE /\ id = 0
          /\ UNCHANGED chatSessions
          /\ QueryReturn(c, "error: create")
  /\ UNCHANGED filesv
  /\ QueryFrame

\* lines 174-179: retrieveDocuments
QueryRetrieve(c, ok) ==
  /\ qpc[c] = "retrieve"
  /\ IF ok
     THEN /\ qpc' = [qpc EXCEPT ![c] = "send"]
          /\ UNCHANGED <<mu, qres, qreq, qsid, chat0, qcall>>
     ELSE QueryReturn(c, "error: retrieve")
  /\ UNCHANGED <<chatSessions, filesv>>
  /\ QueryFrame

\* lines 268-281 and 310-317, with 182-192: SendMessage fails, or the model
\* answers with no part or with text, and QueryRAG returns
QuerySendReturn(c, reply) ==
  /\ qpc[c] = "send"
  /\ reply \in {"error", "empty", "text"}
  /\ QueryReturn(c, IF reply = "error" THEN "error: gemini" ELSE "ok")
  /\ UNCHANGED <<chatSessions, filesv>>
  /\ QueryFrame

\* lines 268-283: the model answers with a function call
QuerySendCall(c, fc) ==
  /\ qpc[c] = "send"
  /\ fc \in FunctionCalls
  /\ qpc' = [qpc EXCEPT ![c] = "tool"]
  /\ qcall' = [qcall EXCEPT ![c] = fc]
  /\ UNCHANGED <<mu, chatSessions, qreq, qsid, qres, chat0, filesv>>
  /\ QueryFrame

\* the loop goes on with the function response as the next part (297-307)
ToolDone(c) ==
  /\ qpc' = [qpc EXCEPT ![c] = "send"]
  /\ qcall' = [qcall EXCEPT ![c] = NoFunctionCall]
  /\ UNCHANGED <<chatSessions, qreq, qsid, qres, chat0>>

\* lines 286-295: the switch on the name of the function; an argument that
\* is missing or not a string makes the type assertion panic.  The calls
\* of the operating system succeed here.
QueryTool(c) ==
  /\ qpc[c] = "tool"
  /\ LET fc == qcall[c]
     IN IF fc.name = "noSuchTool"
        THEN /\ ToolDone(c)
             /\ UNCHANGED <<mu, filesv>>
             /\ QueryFrame
        ELSE IF ~fc.argsOk
        THEN /\ UNCHANGED <<chatSessions, filesv>>
             /\ QueryReturn(c, "panic")
             /\ QueryFrame
        ELSE /\ ToolDone(c)
             /\ CASE fc.name = "createMarkdownFile" ->
                       CreateMarkdownFile(fc.filename, fc.content, TRUE)
                  [] fc.name = "deleteMarkdownFile" ->
                       DeleteMarkdownFile(fc.filename)
                  [] OTHER ->
                       EditMarkdownFile(fc.filename, fc.content, TRUE, TRUE)

\* the process is started again: the map is empty
QueryRestart ==
  /\ \A c \in Callers : qpc[c] = "out"
  /\ chatSessions # {}
  /\ chatSessions' = {}
  /\ qreq' = [c \in Callers |-> 0]
  /\ qsid' = [c \in Callers |-> 0]
  /\ qres' = [c \in Callers |-> NoResult]
  /\ chat0' = [c \in Callers |-> {}]
  /\ qcall' = [c \in Callers |-> NoFunctionCall]
  /\ UNCHANGED <<mu, qpc, filesv>>
  /\ QueryFrame

\* the steps of one call of QueryRAG
QueryStep(c) ==
  \/ QueryLock(c)
  \/ \E createOk \in BOOLEAN, id \in {0} \cup SessionIds : QueryLookup(c, createOk, id)
  \/ \E ok \in BOOLEAN : QueryRetrieve(c, ok)
  \/ \E reply \in {"error", "empty", "text"} : QuerySendReturn(c, reply)
  \/ \E fc \in FunctionCalls : QuerySendCall(c, fc)
  \/ QueryTool(c)

NextQuery ==
  \/ \E c \in Callers, sid \in {0} \cup SessionIds : QueryCall(c, sid)
  \/ \E c \in Callers : QueryLock(c)
  \/ \E c \in Callers, createOk \in BOOLEAN, id \in {0} \cup SessionIds :
       QueryLookup(c, createOk, id)
  \/ \E c \in Callers, ok \in BOOLEAN : QueryRetrieve(c, ok)
  \/ \E c \in Callers, reply \in {"error", "empty", "text"} : QuerySendReturn(c, reply)
  \/ \E c \in Callers, fc \in FunctionCalls : QuerySendCall(c, fc)
  \/ \E c \in Callers : QueryTool(c)
  \/ QueryRestart

SpecQuery == Init /\ [][NextQuery]_vars

\* the goroutine of a call that can take a step takes one
QueryFairness == \A c \in Callers : WF_vars(QueryStep(c))

SpecQueryLive == Init /\ [][NextQuery]_vars /\ QueryFairness

\* ===================================================================
\* Properties
\* ===================================================================
ScanEnded == done = "scan"

EventEnded == done = "event"

\* the regular files of a supported extension in the directory
SupportedOnDisk == {p \in Paths : isSupportedFile(p) /\ IsRegular(fs[p])}

\* the records processAndEmbedFile writes for a file when nothing fails
RecordsOf(path, content) ==
  [i \in 1..Len(SplitText(content)) |->
     NewChunk(path, calculateFileHash(content), SplitText(content), i - 1)]

InOps(o) == \E i \in 1..Len(ops) : ops[i] = o

C2_NoDuplication ==
  ScanEnded => \A p \in Paths : Cardinality(HashesOf(store, p)) <= 1

\* C3: a scan that starts when the previous scan ended without failure and
\* nothing has happened since, and that meets no failure itself, issues no
\* Add and no Delete.
C3_Idempotence ==
  (ScanEnded /\ prevQuiet /\ ~failed) => ops = <<>>

C3_Witness ==
  /\ ScanEnded /\ prevQuiet /\ ~failed
  /\ Len(store["a.md"]) = 2
  /\ store["b.TXT"] # <<>>
  /\ IsRegular(fs["c.go"])

\* C4: a path of the snapshot at which the walk finds no supported regular
\* file, and whose delete does not fail, has no record left when the scan
\* has ended.
C4_DeletionPropagation ==
  ScanEnded =>
    \A p \in DOMAIN indexedFiles :
      (p \notin SupportedOnDisk /\ ~InOps(DeleteOp(p, FALSE))) => store[p] = <<>>

C4_Witness ==
  /\ ScanEnded
  /\ "a.md" \in DOMAIN indexedFiles
  /\ fs["a.md"] = Absent
  /\ store0["a.md"] # <<>>
  /\ store["a.md"] = <<>>
  /\ InOps(DeleteOp("a.md", TRUE))

\* the watcher has just handled a Write or Create event of a supported path
\* at which it found a regular file
IndexEventEnded ==
  /\ EventEnded
  /\ event.Op \in {"Write", "Create"}
  /\ isSupportedFile(event.Name)
  /\ IsRegular(fs[event.Name])

\* C5: after the watcher has handled a Write or Create event, the records of
\* the event's path are not some of the file's current hash and some of
\* another hash, whatever the delete returned.
C5_NoStaleAndFresh ==
  IndexEventEnded =>
    LET hashes == HashesOf(store, event.Name)
        hash == calculateFileHash(fs[event.Name])
    IN ~(hash \in hashes /\ hashes # {hash})

C7_WatchRemoves ==
  (EventEnded /\ event.Op \in {"Remove", "Rename"}
     /\ isSupportedFile(event.Name) /\ ~failed) =>
       /\ store[event.Name] = <<>>
       /\ ops = <<DeleteOp(event.Name, TRUE)>>
       /\ \A q \in Paths \ {event.Name} : store[q] = store0[q]

C7_Witness ==
  /\ EventEnded /\ ~failed
  /\ event = Ev("a.md", "Rename")
  /\ store0["a.md"] # <<>>
  /\ store["a.md"] = <<>>
  /\ IsRegular(fs["b.TXT"])
  /\ store["b.TXT"] = <<>>

InScan == pc \in {"walk", "index", "deletions"} \/ ScanEnded

\* C8: in a scan, every Add for a path of the snapshot (a file found
\* modified) comes after a Delete of that path that succeeded.
C8_DeleteBeforeInsert ==
  InScan =>
    \A j \in 1..Len(ops) :
      (ops[j].op = "Add" /\ ops[j].path \in DOMAIN indexedFiles) =>
         \E i \in 1..(j - 1) : ops[i] = DeleteOp(ops[j].path, TRUE)

C8_Witness ==
  /\ ScanEnded
  /\ "a.md" \in DOMAIN indexedFiles
  /\ ops = <<DeleteOp("a.md", TRUE), AddOp("a.md", 0, TRUE), AddOp("a.md", 1, TRUE)>>

\* a call of the index operation failed at a chunk
ChunkFailure(o) == o.op \in {"Add", "Embed"} /\ ~o.ok

C10_WalkErrorTerminal ==
  (ScanEnded /\ walkErrAt >= 0) => Len(ops) = walkErrAt

\* a call for the path has failed in the current / last operation
FailedOn(path) == \E i \in 1..Len(ops) : ops[i].path = path /\ ~ops[i].ok

GetFailed == InOps(FailureOp("Get", ""))

\* C11: a scan whose snapshot was built ends by the deletion phase, which
\* issues a delete for each of its targets; and when the walk was handed no
\* error, every supported file of the directory has been visited, and each
\* of them for which no call failed is reconciled (left as it was when its
\* hash is the snapshot's, else holding exactly its chunks), whatever failed
\* for the other files.
C11_FileFailuresNotFatal ==
  (ScanEnded /\ ~GetFailed) =>
    /\ \A p \in DeletionTargets(indexedFiles, localFiles) :
         InOps(DeleteOp(p, TRUE)) \/ InOps(DeleteOp(p, FALSE))
    /\ walkErrAt = -1 =>
         /\ localFiles = SupportedOnDisk
         /\ \A p \in SupportedOnDisk :
              ~FailedOn(p) =>
                 IF p \in DOMAIN indexedFiles
                      /\ indexedFiles[p] = calculateFileHash(fs[p])
                 THEN store[p] = store0[p]
                 ELSE store[p] = RecordsOf(p, fs[p])

C11_Witness ==
  /\ ScanEnded /\ ~GetFailed
  /\ FailedOn("a.md")
  /\ store0["b.TXT"] # <<>>
  /\ store0["b.TXT"] # store["b.TXT"]
  /\ store["b.TXT"] = RecordsOf("b.TXT", fs["b.TXT"])

\* C12: no record of the collection, and no Add issued by a scan or by the
\* watcher, has a source_file whose extension (lower-cased) is other than
\* .txt and .md.
C12_UnsupportedExcluded ==
  /\ \A p \in Paths : ToLower(Ext(p)) \notin {".txt", ".md"} => store[p] = <<>>
  /\ \A i \in 1..Len(ops) :
       ops[i].op = "Add" => ToLower(Ext(ops[i].path)) \in {".txt", ".md"}

C12_Witness ==
  /\ EventEnded
  /\ event = Ev("c.go", "Write")
  /\ store["a.md"] # <<>>
  /\ store["c.go"] = <<>>

\* the content a chunk text was cut from
ContentOfText(text) == text \div 10

\* C13: every record of the collection carries as file_hash the hash of
\* the content its text was cut from, also when the file is written
\* between the hashing and the read of an index operation.
C13_HashOfContent ==
  \A p \in Paths : \A i \in 1..Len(store[p]) :
     store[p][i].file_hash = calculateFileHash(ContentOfText(store[p][i].text))

\* the event goroutine receives and handles the event at the head of the channel
HandlesNext ==
  \/ WatchIgnore
  \/ \E hashOk \in BOOLEAN : WatchHashError(hashOk)
  \/ \E deleteOk \in BOOLEAN : WatchDeleteOld(deleteOk)
  \/ \E deleteOk \in BOOLEAN : WatchRemove(deleteOk)

\* C14: once the handling of an event has failed, and as long as the context
\* is not cancelled and the watcher not closed, the event goroutine is in
\* its loop (at the select or handling an event), and at the select an
\* event that is delivered can be received and handled.
C14_BadEventNotFatal ==
  (afterBad /\ ctx = "live" /\ sub # "closed") =>
     /\ wpc \in {"idle", "index"}
     /\ (wpc = "idle" /\ events # <<>>) => ENABLED HandlesNext

C14_Witness ==
  /\ afterBad /\ ctx = "live"
  /\ IndexEventEnded /\ ~failed
  /\ store[event.Name] # <<>>
  /\ store[event.Name] = RecordsOf(event.Name, fs[event.Name])
  /\ wpc = "idle"

\* C15: once WatchDirectory has been started, and until the process is
\* stopped, the context is not cancelled and the event goroutine has not
\* returned.
C15_WatcherLivesOn ==
  wd # "off" => (ctx = "live" /\ wpc # "stopped")

\* C16: WatchDirectory and its event goroutine run only after the scan has
\* returned: while main's goroutine is before or in the scan, the watcher
\* is not started and handles no event.
C16_ScanThenWatch ==
  (wd # "off" \/ wpc # "off") => pc \in {"return", "exit"}

C16_Witness ==
  /\ wpc = "index"
  /\ pc = "return"
  /\ store # EmptyStore
  /\ store0 = store

WatcherDown ==
  /\ wd = "returned"
  /\ sub \in {"closed", "failed"}
  /\ wpc \in {"off", "stopped"}

\* C17: when the context is cancelled, at the select or while an event is
\* being handled, then eventually WatchDirectory has returned with the
\* watcher closed and the event goroutine has returned (or the process has
\* been stopped and started again).
C17_Cancellation ==
  (ctx = "cancelled") ~> (WatcherDown \/ ctx = "live")

C17_Witness ==
  /\ WatcherDown /\ sub = "closed" /\ wpc = "stopped"
  /\ ctx = "cancelled"
  /\ EventEnded /\ failed /\ fails = 0
  /\ ops = <<DeleteOp(event.Name, TRUE), EmbedFailure(event.Name, 0)>>

\* C18: when creating the watcher or adding the directory has failed, no
\* event is delivered, the event goroutine handles none and no call is
\* made to the store; WatchDirectory has returned, or waits for the
\* cancellation and returns when it comes.
C18_FailedSubscriptionNoOp ==
  sub = "failed" =>
     /\ events = <<>>
     /\ wpc \in {"off", "idle", "stopped"}
     /\ ops = <<>> /\ done = "none"
     /\ wd \in {"waiting", "returned"}
     /\ (wd = "waiting" /\ ctx = "cancelled") => ENABLED WatchReturn

C18_Witness ==
  /\ sub = "failed"
  /\ wd = "waiting"
  /\ ctx = "cancelled"
  /\ wpc = "stopped"

IndexingInProgress == pc \in {"walk", "index", "deletions"} \/ wpc = "index"

\* the request being served returns without error
RequestSucceeds ==
  \/ QueryRAGReturn(TRUE)
  \/ IngestNoteReturn(TRUE)
  \/ ReadRequestReturn(TRUE)

\* C19: at every step of a scan and while the watcher indexes a file, a
\* QueryRAG, IngestNote, GetAllNotes or GetTotalChunks request can start;
\* and a request being served can return without error, whatever the
\* indexer is doing and whatever has failed in it.
C19_RequestsNotBlocked ==
  /\ (IndexingInProgress /\ req = "none") =>
        /\ ENABLED QueryRAGEnter
        /\ notes < MaxNotes => ENABLED IngestNoteEnter
        /\ ENABLED ReadRequestEnter("count")
        /\ ENABLED ReadRequestEnter("notes")
  /\ req # "none" => ENABLED RequestSucceeds

C19_Witness ==
  /\ req = "query" /\ mu = "held"
  /\ wpc = "index"
  /\ failed

\* C20: while the event goroutine handles an event (processAndEmbedFile
\* is under way), an event waiting in the channel can be received.
C20_KeepsConsuming ==
  (wpc = "index" /\ events # <<>>) => ENABLED HandlesNext

\* C23: after a scan that ended without failure, a .pdf file of the
\* directory is indexed like a .txt or .md file: the records of its path
\* are the chunks of its content.
C23_PdfIndexed ==
  (ScanEnded /\ ~failed /\ IsRegular(fs["d.pdf"])) =>
     store["d.pdf"] = RecordsOf("d.pdf", fs["d.pdf"])

\* the watcher is subscribed, has handled every event delivered, and
\* nothing has failed in this run nor been injected before
WatcherCaughtUp ==
  /\ sub = "ok" /\ wpc = "idle" /\ events = <<>>
  /\ ctx = "live"
  /\ fails = 0 /\ ~afterBad

\* the records of the path are those of the file now on disk
Reflects(p) == store[p] = IF IsRegular(fs[p]) THEN RecordsOf(p, fs[p]) ELSE <<>>

\* C26: when the watcher has caught up, the collection reflects every file
\* the scan indexes (any supported file, at any depth under the indexed
\* directory) as it is on disk now.
C26_RealTimeCoverage ==
  WatcherCaughtUp => \A p \in Paths : isSupportedFile(p) => Reflects(p)

\* C21: what GetStatus returns is a pair setStatus has written in one
\* call, or the initial pair: scanning with the text of a file or of the
\* start of the scan, or not scanning with the empty text.
C21_StatusNotTorn ==
  got.step = "done" =>
     \/ (~got.IsScanning /\ got.CurrentFile = "")
     \/ /\ got.IsScanning
        /\ got.CurrentFile \in ({"Starting initial scan..."} \cup StatusFiles
                                 \cup {Deleting(n) : n \in StatusFiles})

C21_Witness ==
  /\ got.step = "done"
  /\ got.IsScanning /\ got.CurrentFile = "b.TXT"
  /\ ~status.IsScanning
  /\ spc = "ending"

\* C22: when ScanAndIndexDirectory has returned and the watcher handles no
\* event, the status does not report a scan.
C22_NotScanningAfterReturn ==
  (spc = "returned" /\ call = NoCall) => ~status.IsScanning

\* C24: when Get succeeds, getCurrentIndexState returns without error a map
\* with one entry per source_file of the chunks that carry both fields as
\* strings; the hash of an entry is the file_hash of the first such chunk in
\* the order of the store; for an empty collection the map is empty.
Complete(i) ==
  /\ ~metas[i].nil
  /\ IsString(metas[i].source_file)
  /\ IsString(metas[i].file_hash)

FirstOf(path) ==
  CHOOSE i \in DOMAIN metas :
    /\ Complete(i) /\ metas[i].source_file = path
    /\ \A j \in 1..(i - 1) : ~(Complete(j) /\ metas[j].source_file = path)

C24_SnapshotBuilder ==
  (snap.built /\ ~snap.err) =>
     /\ DOMAIN snap.state = {metas[i].source_file : i \in {j \in DOMAIN metas : Complete(j)}}
     /\ \A path \in DOMAIN snap.state :
          snap.state[path] = [Hash |-> metas[FirstOf(path)].file_hash]
     /\ metas = <<>> => snap.state = EmptyMap

C24_Witness ==
  /\ snap.built /\ ~snap.err
  /\ metas = << [nil |-> FALSE, source_file |-> "a.md", file_hash |-> Number],
                [nil |-> FALSE, source_file |-> "a.md", file_hash |-> "h1"],
                [nil |-> FALSE, source_file |-> "a.md", file_hash |-> "h2"] >>
  /\ snap.state["a.md"].Hash = "h1"

\* C25: a call of processAndEmbedFile in which nothing fails, for a file
\* whose text splits into n chunks, adds exactly n records to the store: the
\* i-th chunk (from 0) with chunk_num i, the path as source_file, the hash
\* passed in as file_hash, and the text of the chunk; nothing else changes
\* in the store.
IndexCall ==
  /\ pc = "index" \/ wpc = "index"
  /\ pending # <<>> /\ pending' = <<>>

NothingFails ==
  \A i \in (Len(ops) + 1)..Len(ops') : ops'[i].ok

ChunksOf(path, hash, text) ==
  [i \in 1..Len(text) |->
     [source_file |-> path, file_hash |-> hash, chunk_num |-> i - 1, text |-> text[i]]]

C25_IndexInsertsChunks ==
  [][(IndexCall /\ NothingFails) =>
       store' = [store EXCEPT ![pending[1]] =
                   @ \o ChunksOf(pending[1], pending[2], SplitText(fs[pending[1]]))]]_vars

C25_Witness ==
  /\ pending = <<>>
  /\ Len(ops) >= 2
  /\ ops[Len(ops) - 1] = AddOp("a.md", 0, TRUE)
  /\ ops[Len(ops)] = AddOp("a.md", 1, TRUE)
  /\ Len(store["a.md"]) = 2
  /\ store["a.md"][2] = [source_file |-> "a.md", file_hash |-> calculateFileHash(1),
                         chunk_num |-> 1, text |-> SplitText(2)[2]]

\* C27: no operation issues a delete for a path whose extension is not
\* supported, whatever the collection held when the process started.
C27_UnsupportedNeverDeleted ==
  \A i \in DOMAIN ops : ops[i].op = "Delete" => isSupportedFile(ops[i].path)

\* C28: EditMarkdownFile with a valid name of a file that does not exist
\* leaves the notes directory as it was; with the name of an existing file
\* it keeps the previous content as a prefix of the new content.
IsPrefix(a, b) == Len(a) <= Len(b) /\ SubSeq(b, 1, Len(a)) = a

C28_EditOnlyAppends ==
  (fcall.op = "Edit" /\ ~sanitizeFilename(fcall.filename).err) =>
     LET path == sanitizeFilename(fcall.filename).path
     IN IF ndir0[path].exists
        THEN ndir[path].exists /\ IsPrefix(ndir0[path].text, ndir[path].text)
        ELSE ndir = ndir0

\* C29: after a scan that ended without any failure, every supported file of
\* the directory that has a chunk in the store has all its chunks there,
\* numbered 0..n-1: what an earlier failed index operation left incomplete
\* has been repaired.
ChunkNums(records) == {records[i].chunk_num : i \in DOMAIN records}

C29_RepairByRescan ==
  (ScanEnded /\ ~failed) =>
     \A p \in SupportedOnDisk :
        store[p] # <<>> => ChunkNums(store[p]) = 0..(Len(SplitText(fs[p])) - 1)

\* C30: when the watcher has subscribed and has caught up, the collection
\* reflects every supported file of the indexed directory itself as it is on
\* disk now, also when the file was changed between its visit by the scan
\* and the subscription.
C30_NoChangeLost ==
  WatcherCaughtUp =>
     \A p \in Paths : (isSupportedFile(p) /\ InRoot(p)) => Reflects(p)

\* C31: at the end of a scan in which the hash of a supported file could
\* not be computed, the chunks of that file are those the store held when
\* the scan started, and the scan has issued no Add and no Delete for it.
HashFailed(p) == InOps(FailureOp("Hash", p))

C31_UnhashableKeepsChunks ==
  ScanEnded =>
     \A p \in Paths : HashFailed(p) =>
        /\ store[p] = store0[p]
        /\ \A i \in DOMAIN ops : ops[i].path = p => ops[i].op = "Hash"

C31_Witness ==
  /\ ScanEnded
  /\ HashFailed("a.md")
  /\ Len(store0["a.md"]) = 2
  /\ store["a.md"] = store0["a.md"]
  /\ "a.md" \in DOMAIN indexedFiles
  /\ IsRegular(fs["a.md"])

\* C32: a scan whose Get failed has ended without visiting any entry of the
\* directory and without any Add or Delete: the only call it logged is the
\* failed Get, and the store is as it was when the scan started.
C32_SnapshotFailureNoOp ==
  (ScanEnded /\ GetFailed) =>
     /\ store = store0
     /\ ops = <<FailureOp("Get", "")>>
     /\ localFiles = {}
     /\ walk = <<>>

C32_Witness ==
  /\ ScanEnded /\ GetFailed
  /\ fs["a.md"] = 2 /\ store["a.md"] = <<>>
  /\ fs["b.TXT"] = Absent /\ store["b.TXT"] # <<>>
  /\ pc = "spawn"

\* C33: a call of the scan or of the watcher on the collection leaves the
\* documents without source_file as they were, in number and in order; so
\* does a call of IngestNote, except for the one it adds.
NotesOf(ms) == SelectSeq(ms, LAMBDA m : m.nil \/ ~IsString(m.source_file))

C33_NotesUntouched ==
  /\ cop.by \in {"scan", "watcher"} => NotesOf(metas) = NotesOf(metas0)
  /\ cop.by = "IngestNote" => IsPrefix(NotesOf(metas0), NotesOf(metas))

C33_Witness ==
  /\ cop.by = "scan" /\ cop.op = "Deletions"
  /\ metas0 = <<[nil |-> FALSE, source_file |-> "a.md", file_hash |-> "h1"],
                NoteMeta,
                [nil |-> FALSE, source_file |-> "b.TXT", file_hash |-> "h2"]>>
  /\ metas = <<NoteMeta>>

\* C34: the event goroutine receives an event only when it handles none,
\* and it receives the one delivered first; while it indexes the file of an
\* event, that event stays the current one and every change of the store is
\* a change of the records of its path.
Received == Len(events') < Len(events) /\ sub' = "ok"

HandledOnce(path) == store0[path] = RecordsOf(path, fs[path])

C35_WatchIdempotent ==
  /\ \A p \in Paths, c \in Contents :
        (isSupportedFile(p) /\ c \in ContentsAt(p)) =>
           HandleWrite(HandleWrite(store, p, c), p, c) = HandleWrite(store, p, c)
  /\ (IndexEventEnded /\ ~failed /\ HandledOnce(event.Name)) => store = store0

C35_Witness ==
  /\ IndexEventEnded /\ ~failed
  /\ event = Ev("a.md", "Write")
  /\ fs["a.md"] = 2
  /\ HandledOnce("a.md")
  /\ ops = <<DeleteOp("a.md", TRUE), AddOp("a.md", 0, TRUE), AddOp("a.md", 1, TRUE)>>
  /\ store = store0

\* C36 (as stated): a call of QueryRAG whose session id is a key of the map
\* uses that id and adds no entry; any other call adds exactly one entry,
\* under an id that was no key; no entry is removed; a successful response
\* carries the id used, which is a key.
Holding(c) == qpc[c] \in {"retrieve", "send", "tool"}

Returned(c) == qpc[c] = "out" /\ qres[c].kind # "none"

LookupOfHolder(c) ==
  IF SessionFound(chat0[c], qreq[c])
  THEN qsid[c] = qreq[c] /\ chatSessions = chat0[c]
  ELSE qsid[c] \notin chat0[c] /\ chatSessions = chat0[c] \cup {qsid[c]}

ResponseOf(c) ==
  /\ qres[c].added \subseteq chatSessions
  /\ qres[c].kind = "ok" =>
       /\ qres[c].SessionID \in chatSessions
       /\ qres[c].known => qres[c].added = {}
       /\ ~qres[c].known => qres[c].added = {qres[c].SessionID}

C36_SessionLookup ==
  \A c \in Callers :
     /\ Holding(c) => LookupOfHolder(c)
     /\ Returned(c) =>
          /\ ResponseOf(c)
          /\ IF qres[c].known THEN qres[c].added = {}
             ELSE Cardinality(qres[c].added) = 1

\* C36 (amended): as above, except that a call that needs a new session and
\* whose Chats.Create fails returns that error and adds no entry.
C36_SessionLookupIfCreated ==
  \A c \in Callers :
     /\ Holding(c) => LookupOfHolder(c)
     /\ Returned(c) =>
          /\ ResponseOf(c)
          /\ IF qres[c].known \/ qres[c].kind = "error: create"
             THEN qres[c].added = {}
             ELSE Cardinality(qres[c].added) = 1

C36_Witness ==
  /\ chatSessions = {1, 2}
  /\ Returned(1) /\ qres[1] = [kind |-> "ok", SessionID |-> 2, known |-> FALSE, added |-> {2}]
  /\ Holding(2) /\ qreq[2] = 2 /\ qsid[2] = 2 /\ chat0[2] = {1, 2}

\* C37: at most one call of QueryRAG is past the lock; the mutex is held
\* exactly while one is; a call that has returned, with an answer, an error
\* or a panic, holds nothing.
Inside == {c \in Callers : qpc[c] \in PastLock}

C37_MutexHeldThroughout ==
  /\ Cardinality(Inside) <= 1
  /\ mu = "held" <=> Inside # {}

C37_Witness ==
  /\ qpc[1] = "tool" /\ qpc[2] = "lock"
  /\ qres[2].kind = "none"
  /\ mu = "held"
  /\ chatSessions = {1, 2}

\* C38: a call of QueryRAG that has sent its prompt to the model returns.
C38_ToolLoopTerminates ==
  \A c \in Callers : (qpc[c] = "send") ~> (qpc[c] = "out")

====
